---- MODULE Spec2Model ----
(***************************************************************************)
(* Verification model of the photobooth repository.                        *)
(*                                                                         *)
(*   SpecServer : server.py, the capture gate (photo_in_progress), the     *)
(*                admission handlers of POST /api/photo and /api/strip and *)
(*                their capture() worker threads.                          *)
(*   SpecJoy    : joystick.py, the polling loop of JoystickController and  *)
(*                _handle_report (edge detection and debounce).            *)
(*   SpecStop   : the same loop with callbacks that may raise and with a   *)
(*                caller of JoystickController.stop().                     *)
(*   SpecKiosk  : kiosk.py, the KioskApp session state machine, its        *)
(*                pending-action mailbox and the background print thread.  *)
(*   SpecPrint  : photobooth.py, the printer calls of print_photo.         *)
(*   SpecEither : the web server or the kiosk, whichever is started.       *)
(*   SpecMeta   : server.py, the request handlers that change the photo    *)
(*                metadata (toggle_like, delete_photo) and its file.       *)
(*   SpecAuth   : server.py as its clients see it: the before_request      *)
(*                gate, routing, the views and the threads they start.     *)
(*   SpecFrame  : the frame source of PhotoboothCamera: the acquisition     *)
(*                loop, its one-frame slot and the readers of the slot.    *)
(*   SpecStrip  : photobooth.py, the size of the image create_photo_strip  *)
(*                makes.                                                   *)
(*                                                                         *)
(* The programs share one set of variables; each specification moves only  *)
(* the variables of its own program.                                       *)
(***************************************************************************)
EXTENDS Integers, Sequences, FiniteSets, TLC

(* ---------------------------------------------------------------- bounds *)

\* Number of capture() threads that may be alive at once in the server.
MaxWorkers == 2

\* Last clock value of the joystick model (seconds).
MaxTime == 7

\* Saturation of the kiosk's elapsed-time clock (units of 0.2 s).
MaxElapsed == 21

\* Number of _queue_action calls the kiosk model follows.
MaxPosts == 3

\* Number of printer operations that may be faulty during one print_photo call.
MaxFaults == 2

\* Number of request handler threads of the metadata endpoints alive at once.
MaxHandlers == 2

\* Number of requests to the metadata endpoints the model follows.
MaxRequests == 3

\* Number of HTTP requests the model of the whole application follows.
MaxHttp == 2

\* Number of frames the camera delivers.
MaxFrames == 3

\* Number of images given to create_photo_strip.
MaxImages == 3

(* ------------------------------------------------------------- constants *)

None == 0

VARIABLES
    \* server.py
    camera,             \* TRUE iff init_camera() produced a camera object
    photo_in_progress,  \* the gate
    last_result,        \* [status, photo_index, photo_url]
    workers,            \* the capture() threads, by slot
    response,           \* history: the last admission response [code, n]
    phases,             \* history: what a workflow running alone wrote to last_result
    \* joystick.py
    jdevice,            \* self._device is not None
    jconnected,         \* self._connected
    prev_buttons,       \* self._prev_buttons
    last_press_time,    \* self._last_press_time
    jnow,               \* time.time() as the joystick thread sees it
    jfired,             \* history: callback invoked by the last loop iteration
    jtruth,             \* history: what the device really did
    running,            \* self._running
    jpc,                \* where the _run thread is: while, connect, read, exited
    stop_pc,            \* where the caller of stop() is: idle, disconnect, returned
    \* kiosk.py
    state,              \* self.state
    elapsed_clock,      \* time.time() - self.state_start
    is_strip,           \* self.is_strip
    strip_photo_index,  \* self.strip_photo_index
    strip_paths,        \* self.strip_paths
    review_image,       \* self.review_image (path it was loaded from, or None)
    current_print_path, \* self._current_print_path
    current_is_strip,   \* self._current_is_strip
    pending_action,     \* self._pending_action
    print_done,         \* self._print_done
    print_thread,       \* the _print_thread closure: [pc, path, is_strip]
    khist,              \* history of the kiosk run
    \* photobooth.py, print_photo
    pp_pc,              \* 0: no call in progress, k: about to do PrinterOps[k]
    pp_open,            \* the Usb printer object of the call is open
    pp_ret,             \* how the last call ended: none, True, False, raised
    pp_faults,          \* the operations the printer fails in this call
    pp_performed,       \* history: number of operations that succeeded
    \* server.py, photo metadata
    photo_metadata,     \* the dict photo_metadata, by filename
    photos,             \* the .jpg files of PHOTOS_DIR
    thermals,           \* the photos that have a _thermal.png beside them
    metadata_file,      \* the content of METADATA_FILE
    handlers,           \* the threads of toggle_like / delete_photo, by slot
    mhist,              \* history of the metadata requests
    \* server.py, sessions
    api_authenticated,  \* session["api_authenticated"] is True, by client
    last_request,       \* history: the last request and what became of it
    \* PhotoboothCamera, the frame source
    frame_slot,         \* the latest-frame slot: a frame or None
    slot_marked,        \* somebody has drawn on the frame that is in the slot
    acq_pc,             \* where the acquisition loop is: while, read, publish, sleep, exited
    acq_frame,          \* the frame the loop has read and not yet stored
    cam_running,        \* the stop signal has not been given
    reader,             \* what the last get_latest_frame call returned
    fhist,              \* history of the acquisition loop
    \* photobooth.py, create_photo_strip
    cs_images,          \* the sizes of the images of photo_paths, in order
    cs_spacing,         \* the argument spacing
    cs_result,          \* what the call did: file saved, size of the strip
    \* kiosk.py, the loop of run()
    loop_pc,            \* what run() does next: build (the frame) or tick
    display             \* what the window shows: the last frame built, or None

server_vars == <<camera, photo_in_progress, last_result, workers, response, phases>>
joy_vars    == <<jdevice, jconnected, prev_buttons, last_press_time, jnow, jfired, jtruth,
                 running, jpc, stop_pc>>
kiosk_vars  == <<state, elapsed_clock, is_strip, strip_photo_index, strip_paths,
                 review_image, current_print_path, current_is_strip,
                 pending_action, print_done, print_thread, khist>>
print_vars  == <<pp_pc, pp_open, pp_ret, pp_faults, pp_performed>>
meta_vars   == <<photo_metadata, photos, thermals, metadata_file, handlers, mhist>>
\* The variables of the programs modelled after the first four.
auth_vars   == <<api_authenticated, last_request>>
frame_vars  == <<frame_slot, slot_marked, acq_pc, acq_frame, cam_running, reader, fhist>>
strip_vars  == <<cs_images, cs_spacing, cs_result>>
loop_vars   == <<loop_pc, display>>
rest_vars == <<meta_vars, auth_vars, frame_vars, strip_vars, loop_vars>>
not_meta_vars == <<server_vars, joy_vars, kiosk_vars, print_vars, auth_vars, frame_vars,
                   strip_vars, loop_vars>>
not_frame_vars == <<server_vars, joy_vars, kiosk_vars, print_vars, meta_vars, auth_vars,
                    strip_vars, loop_vars>>
not_strip_vars == <<server_vars, joy_vars, kiosk_vars, print_vars, meta_vars, auth_vars,
                    frame_vars, loop_vars>>
not_kiosk_vars == <<server_vars, joy_vars, print_vars, meta_vars, auth_vars, frame_vars,
                    strip_vars>>
vars == <<server_vars, joy_vars, kiosk_vars, print_vars, rest_vars>>

(***************************************************************************)
(*                              server.py                                  *)
(***************************************************************************)

Workers == 1..MaxWorkers

\* server.py:358  num_photos = 3
num_photos == 3

\* last_result values (server.py:54, 301, 309, 326, 329, 363, 375, 388, 397, 402)
Result(status, index, url) == [status |-> status, photo_index |-> index, photo_url |-> url]

\* A capture() thread: its kind, its position, the locals i and photo_paths of
\* take_strip.capture, and as history what every camera.capture of the workflow
\* returned (shots) and what the workflow came to (out).
NoWorker == [kind |-> "none", pc |-> "none", i |-> 0, photo_paths |-> <<>>,
             shots |-> <<>>, out |-> "none"]

\* A thread on its way out: its locals are dead.
Leaving(w, pc, out) == [NoWorker EXCEPT !.kind = workers[w].kind, !.pc = pc, !.out = out]

\* camera.capture(countdown): a path, or None when no frame was available.
\* A path is the ordinal of the shot within its workflow.
capture(ok, shot) == IF ok THEN shot ELSE None

RECURSIVE SeqNum(_)
\* The decimal number whose digits are the shot ordinals of a list of paths.
SeqNum(paths) ==
    IF paths = <<>> THEN 0
    ELSE 10 * SeqNum(SubSeq(paths, 1, Len(paths) - 1)) + paths[Len(paths)]

\* create_photo_strip(photo_paths): None for an empty list, otherwise the path
\* of a new strip image made of exactly these shots, in order.
create_photo_strip(photo_paths) ==
    IF photo_paths = <<>> THEN None ELSE 1000 + SeqNum(photo_paths)

\* The two admission checks of take_photo / take_strip, in the code's order.
AdmissionResponse_NoBusyCheck(in_progress, cam) ==
    IF ~cam THEN 500 ELSE 200

AdmissionResponse(in_progress, cam) ==
    IF in_progress THEN 400
    ELSE IF ~cam THEN 500
    ELSE 200

Respond(endpoint, code) ==
    response' = [code |-> code, n |-> 1 - response.n]

Alive == {w \in Workers : workers[w].kind # "none"}

\* The record of last_result is kept for a workflow that runs with no other
\* beside it; it is given up as soon as a second thread is admitted.
Overlap == <<[status |-> "overlap", photo_index |-> 0]>>

\* last_result = {...}
Write(result) ==
    /\ last_result' = result
    /\ phases' = IF phases = Overlap THEN Overlap
                 ELSE Append(phases, [status |-> result.status,
                                      photo_index |-> result.photo_index])

\* POST /api/photo or /api/strip: check the gate and the camera, start the thread.
Admit(endpoint, kind) ==
    LET code == AdmissionResponse(photo_in_progress, camera) IN
    /\ Respond(endpoint, code)
    /\ IF code = 200
       THEN /\ \E w \in Workers :
                 /\ workers[w].kind = "none"
                 /\ workers' = [workers EXCEPT ![w] = [NoWorker EXCEPT !.kind = kind, !.pc = "start"]]
            /\ phases' = IF Alive = {} THEN <<>> ELSE Overlap
       ELSE UNCHANGED <<workers, phases>>
    /\ UNCHANGED <<camera, photo_in_progress, last_result>>

take_photo == Admit("photo", "photo") /\ UNCHANGED <<joy_vars, kiosk_vars, print_vars, rest_vars>>

take_strip == Admit("strip", "strip") /\ UNCHANGED <<joy_vars, kiosk_vars, print_vars, rest_vars>>

SetWorker(w, rec) == workers' = [workers EXCEPT ![w] = rec]

\* capture(): photo_in_progress = True   (server.py:300 and :354)
capture_start(w) ==
    /\ workers[w].pc = "start"
    /\ photo_in_progress' = TRUE
    /\ IF workers[w].kind = "photo"
       THEN SetWorker(w, [workers[w] EXCEPT !.pc = "status"])
       ELSE SetWorker(w, [workers[w] EXCEPT !.pc = "countdown"])
    /\ UNCHANGED <<camera, last_result, response, phases, joy_vars, kiosk_vars, print_vars, rest_vars>>

\* take_photo.capture: last_result = capturing   (server.py:301)
photo_status(w) ==
    /\ workers[w].pc = "status"
    /\ Write(Result("capturing", 0, None))
    /\ SetWorker(w, [workers[w] EXCEPT !.pc = "capture"])
    /\ UNCHANGED <<camera, photo_in_progress, response, joy_vars, kiosk_vars, print_vars, rest_vars>>

\* The except clause (server.py:327-329, 416-418) followed by the finally clause.
OnExceptionNoFinally(w) ==
    /\ Write(Result("error", 0, None))
    /\ SetWorker(w, NoWorker)

OnException(w) ==
    /\ Write(Result("error", 0, None))
    /\ SetWorker(w, Leaving(w, "finally", "raised"))

\* take_photo.capture: if filepath:   (server.py:307)
Captured_Always(filepath) == TRUE

Captured(filepath) == filepath # None

\* take_photo.capture: camera.capture(countdown=3) and the branch on its result
\* (server.py:305-313, 325-326)
photo_capture(w) ==
    /\ workers[w].pc = "capture" /\ workers[w].kind = "photo"
    /\ \/ \E ok \in BOOLEAN :
            LET filepath == capture(ok, 1) IN
            IF Captured(filepath)
            THEN /\ Write(Result("success", 0, filepath))
                 /\ SetWorker(w, Leaving(w, "print", "none"))
            ELSE /\ Write(Result("error", 0, None))
                 /\ SetWorker(w, Leaving(w, "finally", "nocapture"))
       \/ OnException(w)
    /\ UNCHANGED <<camera, photo_in_progress, response, joy_vars, kiosk_vars, print_vars, rest_vars>>

\* What last_result is after print_photo has returned: its return value is
\* dropped   (server.py:323, 410)
ResultAfterPrint_ErrorOnFailure(printed, result) ==
    IF printed THEN result ELSE Result("error", 0, None)

ResultAfterPrint(printed, result) == result

\* process_for_thermal(...) then print_photo(...)   (server.py:322-323, 409-410)
\* process_for_thermal may raise; print_photo returns True or False and never raises.
worker_print(w) ==
    /\ workers[w].pc = "print"
    /\ \/ \E printed \in BOOLEAN :
            /\ SetWorker(w, Leaving(w, "finally", IF printed THEN "printed"
                                                             ELSE "printfailed"))
            /\ last_result' = ResultAfterPrint(printed, last_result)
            /\ UNCHANGED phases
       \/ OnException(w)
    /\ UNCHANGED <<camera, photo_in_progress, response, joy_vars, kiosk_vars, print_vars, rest_vars>>

\* finally: photo_in_progress = False   (server.py:330-331, 419-420)
worker_finally(w) ==
    /\ workers[w].pc = "finally"
    /\ photo_in_progress' = FALSE
    /\ SetWorker(w, NoWorker)
    /\ UNCHANGED <<camera, last_result, response, phases, joy_vars, kiosk_vars, print_vars, rest_vars>>

\* take_strip.capture: "photo_index": i + 1   (server.py:366)
PhotoIndex_FromZero(i) == i

PhotoIndex(i) == i + 1

\* take_strip.capture: the countdown phase of shot i+1   (server.py:362-372)
strip_countdown(w) ==
    /\ workers[w].pc = "countdown"
    /\ Write(Result("countdown", PhotoIndex(workers[w].i), None))
    /\ SetWorker(w, [workers[w] EXCEPT !.pc = "snap"])
    /\ UNCHANGED <<camera, photo_in_progress, response, joy_vars, kiosk_vars, print_vars, rest_vars>>

\* take_strip.capture: last_result = capturing   (server.py:375-378)
strip_snap(w) ==
    /\ workers[w].pc = "snap"
    /\ Write(Result("capturing", 0, None))
    /\ SetWorker(w, [workers[w] EXCEPT !.pc = "capture"])
    /\ UNCHANGED <<camera, photo_in_progress, response, joy_vars, kiosk_vars, print_vars, rest_vars>>

\* take_strip.capture: if path: photo_paths.append(path)   (server.py:382-383)
Collect_All(photo_paths, path) == Append(photo_paths, path)

Collect(photo_paths, path) ==
    IF path # None THEN Append(photo_paths, path) ELSE photo_paths

\* take_strip.capture: camera.capture(countdown=0), the gap phase, and after the
\* last shot the branch of server.py:396-397 / 413-414
strip_capture(w) ==
    /\ workers[w].pc = "capture" /\ workers[w].kind = "strip"
    /\ \/ \E ok \in BOOLEAN :
            LET path  == capture(ok, workers[w].i + 1)
                paths == Collect(workers[w].photo_paths, path)
                shots == Append(workers[w].shots, path)
            IN  IF workers[w].i < num_photos - 1
                THEN /\ Write(Result("waiting", 0, None))
                     /\ SetWorker(w, [workers[w] EXCEPT !.pc = "countdown",
                                        !.i = @ + 1, !.photo_paths = paths,
                                        !.shots = shots])
                ELSE IF paths # <<>>
                THEN /\ Write(Result("processing", 0, None))
                     /\ SetWorker(w, [workers[w] EXCEPT !.pc = "stitch",
                                        !.i = @ + 1, !.photo_paths = paths,
                                        !.shots = shots])
                ELSE /\ Write(Result("error", 0, None))
                     /\ SetWorker(w, [Leaving(w, "finally", "nocapture")
                                        EXCEPT !.shots = shots])
       \/ OnException(w)
    /\ UNCHANGED <<camera, photo_in_progress, response, joy_vars, kiosk_vars, print_vars, rest_vars>>

\* take_strip.capture: create_photo_strip and the branch on its result
\* (server.py:398-406, 411-412)
strip_stitch(w) ==
    /\ workers[w].pc = "stitch"
    /\ \/ LET strip_path == create_photo_strip(workers[w].photo_paths) IN
          IF strip_path # None
          THEN /\ Write(Result("success", 0, strip_path))
               /\ SetWorker(w, Leaving(w, "print", "none"))
          ELSE /\ Write(Result("error", 0, None))
               /\ SetWorker(w, Leaving(w, "finally", "nostrip"))
       \/ OnException(w)
    /\ UNCHANGED <<camera, photo_in_progress, response, joy_vars, kiosk_vars, print_vars, rest_vars>>

NextServer ==
    \/ take_photo
    \/ take_strip
    \/ \E w \in Workers : capture_start(w)
    \/ \E w \in Workers : photo_status(w)
    \/ \E w \in Workers : photo_capture(w)
    \/ \E w \in Workers : strip_countdown(w)
    \/ \E w \in Workers : strip_snap(w)
    \/ \E w \in Workers : strip_capture(w)
    \/ \E w \in Workers : strip_stitch(w)
    \/ \E w \in Workers : worker_print(w)
    \/ \E w \in Workers : worker_finally(w)

InitServer ==
    /\ camera \in BOOLEAN
    /\ photo_in_progress = FALSE
    /\ last_result = Result("ready", 0, None)
    /\ workers = [w \in Workers |-> NoWorker]
    /\ response = [code |-> 0, n |-> 0]
    /\ phases = <<>>

(***************************************************************************)
(*                              joystick.py                                *)
(***************************************************************************)

\* joystick.py:15-21
BUTTON_MASK == 240
K1_BIT == 4
K2_BIT == 5
DEBOUNCE_SECONDS == 2
RECONNECT_INTERVAL == 3

\* Values of data[BUTTON_BYTE] the device reports: the hat switch at rest (0x0F)
\* with no button, K1, K2, K1+K2, K3.
ReportBytes == {15, 31, 47, 63, 79}

RECURSIVE BitAnd(_, _)
\* Python's & on non-negative integers.
BitAnd(a, b) ==
    IF a = 0 \/ b = 0 THEN 0
    ELSE (a % 2) * (b % 2) + 2 * BitAnd(a \div 2, b \div 2)

\* Python's ~ seen through an 8-bit mask.
BitNot(a) == 255 - a

Bit(k) == 2 ^ k

\* _handle_report: buttons = data[BUTTON_BYTE] & BUTTON_MASK   (joystick.py:98)
Buttons(byte) == BitAnd(byte, BUTTON_MASK)

\* _handle_report: rising = buttons & ~prev   (joystick.py:103)
Rising(buttons, prev) == BitAnd(buttons, BitNot(prev))

\* _handle_report: the debounce test   (joystick.py:108-110)
Debounced_Off(now, last) == FALSE

Debounced(now, last) == now - last < DEBOUNCE_SECONDS

\* _handle_report: the callback chosen for a set of rising bits (joystick.py:112-121)
Callback_K2First(rising) ==
    IF BitAnd(rising, Bit(K2_BIT)) # 0 THEN "strip"
    ELSE IF BitAnd(rising, Bit(K1_BIT)) # 0 THEN "single"
    ELSE "none"

Callback(rising) ==
    IF BitAnd(rising, Bit(K1_BIT)) # 0 THEN "single"
    ELSE IF BitAnd(rising, Bit(K2_BIT)) # 0 THEN "strip"
    ELSE "none"

\* _handle_report: the value stored in self._prev_buttons   (joystick.py:100)
NewPrev_Stale(buttons, prev) == prev

NewPrev(buttons, prev) == buttons

\* History of what the device did, kept beside the program's own state:
\*   held    buttons set in the previous report of this connection (0 if none)
\*   fresh   the device was reopened after a read failure and no report came yet
\*   first   the last loop iteration handled the first report after a reconnect
\*   repeat  the last loop iteration handled a report equal to the one before it
\*   before  buttons set in the last report before the last read failure
\*   edges   the last two reports that raised a button: [t, rising, cb]
\*   fires   the times of the last two callback invocations
\*   lost    the buttons K1, K2 whose last press came less than DEBOUNCE_SECONDS
\*           after a callback invocation, set in every report since
Push2(seq, e) == IF Len(seq) < 2 THEN Append(seq, e) ELSE <<seq[2], e>>

TruthReport(byte) ==
    LET bits  == BitAnd(byte, 240)
        rises == BitAnd(bits, 255 - jtruth.held)
        e     == [t |-> jnow, rising |-> rises, cb |-> jfired']
        down  == IF jtruth.fresh THEN jtruth.before ELSE jtruth.held
        press == BitAnd(BitAnd(bits, 255 - down), 48)
        early == jtruth.fires # <<>> /\ jnow - jtruth.fires[Len(jtruth.fires)] < DEBOUNCE_SECONDS
    IN  jtruth' = [held   |-> bits,
                   lost   |-> BitAnd(jtruth.lost, bits) + (IF early THEN press ELSE 0),
                   fresh  |-> FALSE,
                   first  |-> jtruth.fresh,
                   repeat |-> bits = jtruth.held /\ bits # 0 /\ ~jtruth.fresh,
                   before |-> jtruth.before,
                   edges  |-> IF rises = 0 THEN jtruth.edges ELSE Push2(jtruth.edges, e),
                   fires  |-> IF jfired' = "none" THEN jtruth.fires
                              ELSE Push2(jtruth.fires, jnow)]

TruthOther == jtruth' = [jtruth EXCEPT !.first = FALSE, !.repeat = FALSE]

\* Time a loop iteration takes beyond its sleeps, in seconds.
Elapse(d) ==
    /\ jnow + d <= MaxTime
    /\ jnow' = jnow + d

\* _handle_report(data)   (joystick.py:95-121)
handle_report(byte) ==
    LET buttons == Buttons(byte)
        rising  == Rising(buttons, prev_buttons)
        cb      == IF rising = 0 \/ Debounced(jnow, last_press_time)
                   THEN "none" ELSE Callback(rising)
    IN  /\ prev_buttons' = NewPrev(buttons, prev_buttons)
        /\ jfired' = cb
        /\ last_press_time' = IF cb # "none" THEN jnow ELSE last_press_time

\* _run: where an exception raised by a callback goes: the except clause of
\* the loop body, then the next iteration   (joystick.py:88-93)
AfterCallbackError_Escapes == "exited"

AfterCallbackError == "while"

\* _run: the test of the while loop and the step into the blocking call of the
\* body, _connect() or self._device.read(64)   (joystick.py:75-77, 81-82)
run_while ==
    /\ jpc = "while"
    /\ jpc' = IF ~running THEN "exited"
              ELSE IF ~jdevice THEN "connect"
              ELSE "read"
    /\ jfired' = "none"
    /\ TruthOther
    /\ UNCHANGED <<jdevice, jconnected, prev_buttons, last_press_time, jnow,
                   running, stop_pc, server_vars, kiosk_vars, print_vars, rest_vars>>

\* _run: self._connect() succeeds and the loop body goes on to
\* self._device.read(64) with no test of _running   (joystick.py:76-77, 44-55, 81-82)
connect_ok ==
    /\ jpc = "connect"
    /\ jpc' = "read"
    /\ jdevice' = TRUE
    /\ jconnected' = TRUE
    /\ jfired' = "none"
    /\ TruthOther
    /\ \E d \in {0, 1} : Elapse(d)
    /\ UNCHANGED <<prev_buttons, last_press_time, running, stop_pc,
                   server_vars, kiosk_vars, print_vars, rest_vars>>

\* _run: self._connect() fails, sleep RECONNECT_INTERVAL   (joystick.py:76-79, 56-60)
connect_fail ==
    /\ jpc = "connect"
    /\ jpc' = "while"
    /\ jdevice' = FALSE
    /\ jconnected' = FALSE
    /\ jfired' = "none"
    /\ TruthOther
    /\ Elapse(RECONNECT_INTERVAL)
    /\ UNCHANGED <<prev_buttons, last_press_time, running, stop_pc,
                   server_vars, kiosk_vars, print_vars, rest_vars>>

\* _run: read returns nothing or a report too short to hold BUTTON_BYTE
\* (joystick.py:82-87)
read_nothing ==
    /\ jpc = "read" /\ jdevice
    /\ jpc' = "while"
    /\ jfired' = "none"
    /\ TruthOther
    /\ \E d \in {0, 1} : Elapse(d)
    /\ UNCHANGED <<jdevice, jconnected, prev_buttons, last_press_time,
                   running, stop_pc, server_vars, kiosk_vars, print_vars, rest_vars>>

\* _run: read returns a report, _handle_report(data)   (joystick.py:82-84)
read_report ==
    /\ jpc = "read" /\ jdevice
    /\ jpc' = "while"
    /\ \E byte \in ReportBytes :
          /\ handle_report(byte)
          /\ TruthReport(byte)
    /\ \E d \in {0, 1} : Elapse(d)
    /\ UNCHANGED <<jdevice, jconnected, running, stop_pc, server_vars, kiosk_vars, print_vars, rest_vars>>

\* _run: read raises, also when stop() has closed the device under the loop;
\* _disconnect(), _prev_buttons = 0, sleep   (joystick.py:88-93)
read_error ==
    /\ jpc = "read"
    /\ jpc' = "while"
    /\ jdevice' = FALSE
    /\ jconnected' = FALSE
    /\ prev_buttons' = 0
    /\ jfired' = "none"
    /\ jtruth' = [jtruth EXCEPT !.held = 0, !.fresh = TRUE, !.first = FALSE,
                                !.repeat = FALSE, !.before = jtruth.held]
    /\ Elapse(RECONNECT_INTERVAL)
    /\ UNCHANGED <<last_press_time, running, stop_pc, server_vars, kiosk_vars, print_vars, rest_vars>>

\* _run: read returns a report, _handle_report invokes a callback and the
\* callback raises: the except clause of the loop body   (joystick.py:82-84,
\* 112-121, 88-93)
read_report_raise ==
    /\ jpc = "read" /\ jdevice
    /\ \E byte \in ReportBytes :
          LET buttons == Buttons(byte)
              rising  == Rising(buttons, prev_buttons)
          IN  /\ rising # 0
              /\ ~Debounced(jnow, last_press_time)
              /\ Callback(rising) # "none"
              /\ jfired' = Callback(rising)
              /\ last_press_time' = jnow
              /\ jtruth' = [jtruth EXCEPT !.held = 0, !.fresh = TRUE, !.first = FALSE,
                                          !.repeat = FALSE, !.before = buttons,
                                          !.fires = Push2(@, jnow)]
    /\ jpc' = AfterCallbackError
    /\ jdevice' = FALSE
    /\ jconnected' = FALSE
    /\ prev_buttons' = 0
    /\ Elapse(RECONNECT_INTERVAL)
    /\ UNCHANGED <<running, stop_pc, server_vars, kiosk_vars, print_vars, rest_vars>>

\* stop(): self._running = False   (joystick.py:125)
stop_signal ==
    /\ stop_pc = "idle"
    /\ running' = FALSE
    /\ stop_pc' = "disconnect"
    /\ UNCHANGED <<jdevice, jconnected, prev_buttons, last_press_time, jnow, jfired,
                   jtruth, jpc, server_vars, kiosk_vars, print_vars, rest_vars>>

\* stop(): self._disconnect(), then stop() returns   (joystick.py:126, 62-71)
stop_disconnect ==
    /\ stop_pc = "disconnect"
    /\ jdevice' = FALSE
    /\ jconnected' = FALSE
    /\ stop_pc' = "returned"
    /\ UNCHANGED <<prev_buttons, last_press_time, jnow, jfired, jtruth, running,
                   jpc, server_vars, kiosk_vars, print_vars, rest_vars>>

\* The loop with callbacks that return, and nobody calling stop().
NextJoy ==
    \/ run_while
    \/ connect_ok
    \/ connect_fail
    \/ read_nothing
    \/ read_report
    \/ read_error

\* The loop with callbacks that may raise, and a caller of stop().
NextStop ==
    \/ NextJoy
    \/ read_report_raise
    \/ stop_signal
    \/ stop_disconnect

\* __init__ (joystick.py:25-37); time.time() is far beyond DEBOUNCE_SECONDS.
InitJoy ==
    /\ jdevice = FALSE
    /\ jconnected = FALSE
    /\ prev_buttons = 0
    /\ last_press_time = 0
    /\ jnow = DEBOUNCE_SECONDS
    /\ jfired = "none"
    /\ jtruth = [held |-> 0, fresh |-> FALSE, first |-> FALSE, repeat |-> FALSE,
                 before |-> 0, edges |-> <<>>, fires |-> <<>>, lost |-> 0]
    /\ running = TRUE
    /\ jpc = "while"
    /\ stop_pc = "idle"


(***************************************************************************)
(*                               kiosk.py                                  *)
(***************************************************************************)

\* The kiosk clock counts units of FLASH_DURATION (0.2 s): five to the second.
UnitsPerSecond == 5

\* kiosk.py:32-36, in clock units
COUNTDOWN_SECONDS  == 3 * UnitsPerSecond
FLASH_DURATION     == 1
REVIEW_DURATION    == 4 * UnitsPerSecond
STRIP_GAP_DURATION == 2 * UnitsPerSecond
STRIP_NUM_PHOTOS   == 3

KioskStates == {"IDLE", "COUNTDOWN", "FLASH", "CAPTURE", "STRIP_GAP", "REVIEW", "PRINTING"}

NoThread == [pc |-> "none", path |-> None, is_strip |-> FALSE, result |-> "none"]

\* The empty mailbox: self._pending_action = None.  A posted trigger is the
\* action string together with the number of the _queue_action call that posted it.
NoAction == [action |-> "None", id |-> 0]

\* _pop_action: the value left in the slot   (kiosk.py:141)
SlotAfterPop_Keep(slot) == slot

SlotAfterPop(slot) == NoAction

\* _queue_action: the value left in the slot   (kiosk.py:136)
SlotAfterQueue_KeepFirst(slot, action) == IF slot = NoAction THEN action ELSE slot

SlotAfterQueue(slot, action) == action

\* _start_printing_current: the test that decides between PRINTING and IDLE
\* (kiosk.py:388)
HasOutput_Always(path) == TRUE

HasOutput(path) == path # None

\* _print_thread: where control goes when process_for_thermal raises
\* (kiosk.py:172-175: except, then finally)
AfterPrintError_NoFinally == "none"

AfterPrintError == "finally"

\* _print_thread: where control goes when print_photo has returned, True or
\* False   (kiosk.py:171, 174-175: the end of the try body, then finally)
AfterPrint_FailureStuck(printed) == IF printed THEN "finally" ELSE "none"

AfterPrint(printed) == "finally"

\* _queue_action(action), called by the joystick callbacks   (kiosk.py:134-136)
queue_action ==
    /\ khist.posted < MaxPosts
    /\ \E action \in {"single", "strip"} :
          pending_action' = SlotAfterQueue(pending_action,
                                           [action |-> action, id |-> khist.posted + 1])
    /\ khist' = [khist EXCEPT !.posted = @ + 1]
    /\ UNCHANGED <<state, elapsed_clock, is_strip, strip_photo_index, strip_paths,
                   review_image, current_print_path, current_is_strip,
                   print_done, print_thread, server_vars, joy_vars, print_vars, rest_vars>>

\* self.state_start = time.time(): what _elapsed() is right after it.
ElapsedOnEntry_Carried(elapsed) == elapsed

ElapsedOnEntry(elapsed) == 0

\* _enter_state(state)   (kiosk.py:146-148)
enter_state(s) ==
    /\ state' = s
    /\ elapsed_clock' = ElapsedOnEntry(elapsed_clock)

\* _start_countdown()   (kiosk.py:153-155)
start_countdown_Flash == enter_state("FLASH")

start_countdown == enter_state("COUNTDOWN")

\* History of a _tick that called _enter_state with these states, in order.
Entered(hist, states) ==
    [hist EXCEPT !.trace = @ \o states, !.dwell = 0, !.ticks = 1 - @]

\* The state _do_capture enters before it takes the frame   (kiosk.py:159)
DoCaptureState == "CAPTURE"

\* _finish_single(filepath) without its last line: the state stays the one
\* _do_capture entered.
finish_single_NoReview(filepath) ==
    /\ IF filepath # None
       THEN /\ review_image' = filepath
            /\ current_print_path' = filepath
            /\ current_is_strip' = FALSE
       ELSE /\ review_image' = None
            /\ current_print_path' = None
            /\ UNCHANGED current_is_strip
    /\ enter_state(DoCaptureState)

\* _finish_single(filepath)   (kiosk.py:357-367)
finish_single(filepath) ==
    /\ IF filepath # None
       THEN /\ review_image' = filepath
            /\ current_print_path' = filepath
            /\ current_is_strip' = FALSE
       ELSE /\ review_image' = None
            /\ current_print_path' = None
            /\ UNCHANGED current_is_strip
    /\ enter_state("REVIEW")

\* _finish_strip()   (kiosk.py:369-384), on the list of paths after the last shot
finish_strip(paths) ==
    LET strip_path == create_photo_strip(paths) IN
    /\ IF paths # <<>> /\ strip_path # None
       THEN /\ review_image' = strip_path
            /\ current_print_path' = strip_path
            /\ current_is_strip' = TRUE
       ELSE /\ review_image' = None
            /\ current_print_path' = None
            /\ UNCHANGED current_is_strip
    /\ enter_state("REVIEW")

\* self.strip_paths = [] at the start of a session   (kiosk.py:313, 318)
PathsAtStart_Kept(paths) == paths

PathsAtStart(paths) == <<>>

\* self.strip_photo_index = 0 at the start of a strip session   (kiosk.py:318)
IndexAtStart_Kept(index) == index

IndexAtStart(index) == 0

\* _tick in IDLE: _pop_action and the start of a session   (kiosk.py:310-320)
tick_idle ==
    LET action == pending_action.action IN
    /\ pending_action' = SlotAfterPop(pending_action)
    /\ IF action = "single"
       THEN /\ is_strip' = FALSE
            /\ strip_paths' = PathsAtStart(strip_paths)
            /\ start_countdown
            /\ UNCHANGED strip_photo_index
       ELSE IF action = "strip"
       THEN /\ is_strip' = TRUE
            /\ strip_photo_index' = IndexAtStart(strip_photo_index)
            /\ strip_paths' = PathsAtStart(strip_paths)
            /\ start_countdown
       ELSE UNCHANGED <<state, elapsed_clock, is_strip, strip_photo_index, strip_paths>>
    /\ khist' = [khist EXCEPT !.consumed = IF action # "None"
                                            THEN Append(@, pending_action.id) ELSE @,
                              !.last_capture = None,
                              !.shots = <<>>,
                              !.printed = "none",
                              !.kind = IF action # "None" THEN action ELSE @,
                              !.trace = IF state' # state THEN <<state'>> ELSE <<>>,
                              !.dwell = IF state' # state THEN 0 ELSE @,
                              !.ticks = 1 - @]
    /\ UNCHANGED <<review_image, current_print_path, current_is_strip,
                   print_done, print_thread>>

\* self.strip_photo_index += 1 after _do_capture returned filepath   (kiosk.py:331)
IndexAfterCapture_OnSuccess(index, filepath) ==
    IF filepath # None THEN index + 1 ELSE index

IndexAfterCapture(index, filepath) == index + 1

\* _tick in FLASH once FLASH_DURATION has elapsed: _do_capture and what follows
\* (kiosk.py:326-339, 157-162)
tick_flash ==
    \E ok \in BOOLEAN :
      LET filepath == capture(ok, IF is_strip THEN strip_photo_index + 1 ELSE 1)
          paths    == IF filepath # None THEN Append(strip_paths, filepath) ELSE strip_paths
      IN  /\ IF is_strip
             THEN /\ strip_paths' = paths
                  /\ strip_photo_index' = IndexAfterCapture(strip_photo_index, filepath)
                  /\ IF strip_photo_index' < STRIP_NUM_PHOTOS
                     THEN /\ enter_state("STRIP_GAP")
                          /\ UNCHANGED <<review_image, current_print_path, current_is_strip>>
                     ELSE finish_strip(paths)
             ELSE /\ finish_single(filepath)
                  /\ UNCHANGED <<strip_paths, strip_photo_index>>
          /\ khist' = [Entered(khist, <<DoCaptureState, state'>>) EXCEPT
                                    !.last_capture = filepath,
                                    !.shots = Append(@, filepath)]
          /\ UNCHANGED <<is_strip, pending_action, print_done, print_thread>>

\* _start_printing: self._print_done = False before the thread is started
\* (kiosk.py:165)
DoneAtStart_Kept(done) == done

DoneAtStart(done) == FALSE

\* _tick in REVIEW once REVIEW_DURATION has elapsed: _start_printing_current and
\* _start_printing   (kiosk.py:349-351, 386-391, 164-177)
tick_review ==
    /\ IF HasOutput(current_print_path)
       THEN /\ print_done' = DoneAtStart(print_done)
            /\ enter_state("PRINTING")
            /\ print_thread' = [pc |-> "thermal", path |-> current_print_path,
                                is_strip |-> current_is_strip, result |-> "none"]
       ELSE /\ enter_state("IDLE")
            /\ UNCHANGED <<print_done, print_thread>>
    /\ khist' = [Entered(khist, <<state'>>) EXCEPT !.returned = @ \/ state' = "IDLE"]
    /\ UNCHANGED <<is_strip, strip_photo_index, strip_paths, review_image,
                   current_print_path, current_is_strip, pending_action>>

\* _tick()   (kiosk.py:306-355): what it does to the kiosk
tick_body ==
    /\ IF state = "IDLE"
       THEN tick_idle
       ELSE IF state = "COUNTDOWN" /\ elapsed_clock >= COUNTDOWN_SECONDS
       THEN /\ enter_state("FLASH")
            /\ khist' = Entered(khist, <<state'>>)
            /\ UNCHANGED <<is_strip, strip_photo_index, strip_paths, review_image,
                           current_print_path, current_is_strip, pending_action,
                           print_done, print_thread>>
       ELSE IF state = "FLASH" /\ elapsed_clock >= FLASH_DURATION
       THEN tick_flash
       ELSE IF state = "STRIP_GAP" /\ elapsed_clock >= STRIP_GAP_DURATION
       THEN /\ start_countdown
            /\ khist' = Entered(khist, <<state'>>)
            /\ UNCHANGED <<is_strip, strip_photo_index, strip_paths, review_image,
                           current_print_path, current_is_strip, pending_action,
                           print_done, print_thread>>
       ELSE IF state = "REVIEW" /\ elapsed_clock >= REVIEW_DURATION
       THEN tick_review
       ELSE IF state = "PRINTING" /\ print_done
       THEN /\ enter_state("IDLE")
            /\ khist' = [Entered(khist, <<state'>>) EXCEPT !.returned = TRUE]
            /\ UNCHANGED <<is_strip, strip_photo_index, strip_paths, review_image,
                           current_print_path, current_is_strip, pending_action,
                           print_done, print_thread>>
       ELSE /\ khist' = [khist EXCEPT !.ticks = 1 - @]
            /\ UNCHANGED <<state, elapsed_clock, is_strip, strip_photo_index, strip_paths,
                           review_image, current_print_path, current_is_strip,
                           pending_action, print_done, print_thread>>

\* _tick()   (kiosk.py:306-355)
tick ==
    /\ tick_body
    /\ UNCHANGED <<server_vars, joy_vars, print_vars, rest_vars>>

\* _print_thread: process_for_thermal(image_path, is_strip)   (kiosk.py:169-170)
print_thermal ==
    /\ print_thread.pc = "thermal"
    /\ \E raised \in BOOLEAN :
          print_thread' = [print_thread EXCEPT
                             !.pc = IF raised THEN AfterPrintError ELSE "print",
                             !.result = IF raised THEN "raised" ELSE @]
    /\ UNCHANGED <<state, elapsed_clock, is_strip, strip_photo_index, strip_paths,
                   review_image, current_print_path, current_is_strip,
                   pending_action, print_done, khist, server_vars, joy_vars, print_vars, rest_vars>>

\* _print_thread: print_photo(thermal), True or False   (kiosk.py:171)
print_print ==
    /\ print_thread.pc = "print"
    /\ \E printed \in BOOLEAN :
          print_thread' = [print_thread EXCEPT
                             !.pc = AfterPrint(printed),
                             !.result = IF printed THEN "printed" ELSE "failed"]
    /\ UNCHANGED <<state, elapsed_clock, is_strip, strip_photo_index, strip_paths,
                   review_image, current_print_path, current_is_strip,
                   pending_action, print_done, khist, server_vars, joy_vars, print_vars, rest_vars>>

\* _print_thread: finally: self._print_done = True   (kiosk.py:174-175)
print_finally ==
    /\ print_thread.pc = "finally"
    /\ print_done' = TRUE
    /\ print_thread' = NoThread
    /\ khist' = [khist EXCEPT !.printed = print_thread.result, !.finished = TRUE]
    /\ UNCHANGED <<state, elapsed_clock, is_strip, strip_photo_index, strip_paths,
                   review_image, current_print_path, current_is_strip,
                   pending_action, server_vars, joy_vars, print_vars, rest_vars>>

\* Time passes: time.time() grows, and so does _elapsed().  Beyond MaxElapsed
\* every duration has run out and more time changes nothing.
kiosk_time ==
    /\ elapsed_clock < MaxElapsed
    /\ elapsed_clock' = elapsed_clock + 1
    /\ khist' = [khist EXCEPT !.dwell = IF @ < MaxElapsed THEN @ + 1 ELSE @]
    /\ UNCHANGED <<state, is_strip, strip_photo_index, strip_paths,
                   review_image, current_print_path, current_is_strip,
                   pending_action, print_done, print_thread,
                   server_vars, joy_vars, print_vars, rest_vars>>

\* What a built frame shows: the picture (with the image, for a review), the
\* text in the centre (with the number, for a countdown) and the banner (with
\* the number of the shot, for a strip).
Shown(picture, image, text, count, label, shot) ==
    [picture |-> picture, image |-> image, text |-> text, count |-> count,
     label |-> label, shot |-> shot]

\* The window before the first imshow.
NothingShown == Shown("none", None, "none", 0, "none", 0)

\* remaining = COUNTDOWN_SECONDS - int(elapsed), at least 1   (kiosk.py:262-265)
Remaining(elapsed) ==
    LET remaining == COUNTDOWN_SECONDS \div UnitsPerSecond - elapsed \div UnitsPerSecond
    IN  IF remaining < 1 THEN 1 ELSE remaining

\* _build_review_frame()   (kiosk.py:281-304)
build_review_frame(st, review) ==
    IF review = None THEN Shown("blank", None, "Processing...", 0, "none", 0)
    ELSE Shown("review", review, "none", 0,
               IF st = "PRINTING" THEN "Printing..." ELSE "none", 0)

\* A frame of the camera, as self.camera.get_frame() returns it.
PreviewFrame == 1

\* _build_frame(): the frame it returns   (kiosk.py:236-279); frame is what
\* self.camera.get_frame() gave, None or a preview frame
BuildFrame(st, frame, review, elapsed, strip, index) ==
    IF st = "FLASH" THEN Shown("white", None, "none", 0, "none", 0)
    ELSE IF st \in {"REVIEW", "PRINTING"} THEN build_review_frame(st, review)
    ELSE IF frame = None THEN Shown("blank", None, "Waiting for camera...", 0, "none", 0)
    ELSE IF st = "IDLE"
         THEN Shown("preview", None, "none", 0, "Press the button to take a photo!", 0)
    ELSE IF st = "COUNTDOWN"
         THEN IF strip
              THEN Shown("preview", None, "remaining", Remaining(elapsed), "Photo", index + 1)
              ELSE Shown("preview", None, "remaining", Remaining(elapsed), "none", 0)
    ELSE IF st = "STRIP_GAP"
         THEN Shown("preview", None, "none", 0, "Get ready for photo", index + 1)
    ELSE Shown("preview", None, "SNAP!", 0, "none", 0)

\* The shot index after the label "Photo {self.strip_photo_index + 1}/3" has
\* been made   (kiosk.py:268, 272)
IndexAfterLabel_Incremented(index) == index + 1

IndexAfterLabel(index) == index

\* run(): display = self._build_frame(); cv2.imshow(WINDOW_NAME, display); the
\* key is not ESC   (kiosk.py:224-229)
build_frame ==
    /\ loop_pc = "build"
    /\ \E frame \in {None, PreviewFrame} :
          display' = BuildFrame(state, frame, review_image, elapsed_clock,
                                is_strip, strip_photo_index)
    /\ strip_photo_index' = IndexAfterLabel(strip_photo_index)
    /\ loop_pc' = "tick"
    /\ UNCHANGED <<state, elapsed_clock, is_strip, strip_paths,
                   review_image, current_print_path, current_is_strip,
                   pending_action, print_done, print_thread, khist, not_kiosk_vars>>

\* run(): self._tick()   (kiosk.py:232)
loop_tick ==
    /\ loop_pc = "tick"
    /\ tick_body
    /\ loop_pc' = "build"
    /\ UNCHANGED <<display, not_kiosk_vars>>

InitLoop ==
    /\ loop_pc = "build"
    /\ display = NothingShown

NextLoop ==
    \/ queue_action
    \/ build_frame
    \/ loop_tick
    \/ print_thermal
    \/ print_print
    \/ print_finally
    \/ kiosk_time

NextKiosk ==
    \/ queue_action
    \/ tick
    \/ print_thermal
    \/ print_print
    \/ print_finally
    \/ kiosk_time

\* KioskApp.__init__   (kiosk.py:42-60)
\* History: posted = number of _queue_action calls, consumed = the calls whose
\* action _tick has taken, last_capture = what the session's last _do_capture
\* returned, shots = what each _do_capture of the session returned, printed =
\* what the session's print thread came to, returned = a session has come back
\* to IDLE, ticks = parity of the number of _tick calls, kind = the action that
\* started the last session, trace = the states the session has entered, in
\* order, dwell = the time since the state was last entered.  What is recorded
\* of a session is cleared by the first _tick in IDLE after it.
InitKiosk ==
    /\ state = "IDLE"
    /\ elapsed_clock = 0
    /\ is_strip = FALSE
    /\ strip_photo_index = 0
    /\ strip_paths = <<>>
    /\ review_image = None
    /\ current_print_path = None
    /\ current_is_strip = FALSE
    /\ pending_action = NoAction
    /\ print_done = FALSE
    /\ print_thread = NoThread
    /\ khist = [posted |-> 0, consumed |-> <<>>, last_capture |-> None,
                shots |-> <<>>, printed |-> "none", returned |-> FALSE, ticks |-> 0,
                kind |-> "None", trace |-> <<>>, dwell |-> 0,
                finished |-> FALSE]

(***************************************************************************)
(*                      photobooth.py, print_photo                         *)
(***************************************************************************)

\* The printer calls of the try body, in the order the code makes them
\* (photobooth.py:424-450).
PrinterOps ==
    <<"Usb", "set", "text", "set", "text", "set", "text", "set", "text",
      "image", "text", "set", "text", "text", "cut", "close">>

NumOps == Len(PrinterOps)

\* What the printer does to one call: the set of operations that raise.
FaultPlans == {F \in SUBSET (1..NumOps) : Cardinality(F) <= MaxFaults}

\* print_photo: what a printer operation that raises leads to: the except
\* clause, return False   (photobooth.py:455-457)
OnPrinterError_Propagates(k) == "raised"

OnPrinterError(k) == "False"

\* print_photo(image_path) is called   (photobooth.py:419-423)
print_photo_call ==
    /\ pp_pc = 0
    /\ pp_pc' = 1
    /\ pp_open' = FALSE
    /\ pp_ret' = "none"
    /\ pp_faults' \in FaultPlans
    /\ pp_performed' = 0
    /\ UNCHANGED <<server_vars, joy_vars, kiosk_vars, rest_vars>>

\* print_photo: the next printer call of the try body succeeds
\* (photobooth.py:424-450)
printer_op ==
    /\ pp_pc \in 1..NumOps
    /\ pp_pc \notin pp_faults
    /\ pp_pc' = pp_pc + 1
    /\ pp_open' = IF PrinterOps[pp_pc] = "Usb" THEN TRUE
                  ELSE IF PrinterOps[pp_pc] = "close" THEN FALSE
                  ELSE pp_open
    /\ pp_performed' = pp_performed + 1
    /\ UNCHANGED <<pp_ret, pp_faults, server_vars, joy_vars, kiosk_vars, rest_vars>>

\* print_photo: the next printer call raises   (photobooth.py:424-450, 455-457)
printer_op_raise ==
    /\ pp_pc \in 1..NumOps
    /\ pp_pc \in pp_faults
    /\ pp_pc' = 0
    /\ pp_ret' = OnPrinterError(pp_pc)
    /\ UNCHANGED <<pp_open, pp_faults, pp_performed, server_vars, joy_vars, kiosk_vars, rest_vars>>

\* print_photo: return True   (photobooth.py:452-453)
print_photo_return ==
    /\ pp_pc = NumOps + 1
    /\ pp_pc' = 0
    /\ pp_ret' = "True"
    /\ UNCHANGED <<pp_open, pp_faults, pp_performed, server_vars, joy_vars, kiosk_vars, rest_vars>>

NextPrint ==
    \/ print_photo_call
    \/ printer_op
    \/ printer_op_raise
    \/ print_photo_return

InitPrint ==
    /\ pp_pc = 0
    /\ pp_open = FALSE
    /\ pp_ret = "none"
    /\ pp_faults = {}
    /\ pp_performed = 0

(***************************************************************************)
(*                server.py, the photo metadata handlers                   *)
(***************************************************************************)

\* The filenames the requests name.  Both are of one length, so the JSON text
\* of a map depends on its entries' values only.
Filenames == {"photo_1.jpg", "photo_2.jpg"}

Handlers == 1..MaxHandlers

\* What photo_metadata holds for a filename: no entry (absent), the entry {}
\* (empty), {"liked": true} (liked) or {"liked": false} (unliked).
EntryValues == {"absent", "empty", "liked", "unliked"}

EmptyMap == [f \in Filenames |-> "absent"]

\* json.dump(photo_metadata): the number of characters of the text.
\* {"photo_1.jpg": {"liked": true}, "photo_2.jpg": {}}
EntryLen(v) ==
    IF v = "absent" THEN 0
    ELSE 15 + (IF v = "empty" THEN 2 ELSE IF v = "liked" THEN 15 ELSE 16)

RECURSIVE SumLen(_, _)
SumLen(map, names) ==
    IF names = {} THEN 0
    ELSE LET f == CHOOSE g \in names : TRUE
         IN  EntryLen(map[f]) + SumLen(map, names \ {f})

JsonLen(map) ==
    LET n == Cardinality({f \in Filenames : map[f] # "absent"})
    IN  2 + SumLen(map, Filenames) + (IF n > 1 THEN 2 * (n - 1) ELSE 0)

\* The content of METADATA_FILE: no file (absent), or its bytes (data): their
\* number, whether they are the JSON text of a map, and that map.
NoFile     == [kind |-> "absent", valid |-> FALSE, map |-> EmptyMap, len |-> 0]
Truncated  == [kind |-> "data",   valid |-> FALSE, map |-> EmptyMap, len |-> 0]
JsonOf(map) == [kind |-> "data",  valid |-> TRUE,  map |-> map, len |-> JsonLen(map)]

\* load_metadata(): the map the process starts with   (server.py:75-83)
\* No file: photo_metadata keeps its initial {}.  A file json.load rejects: {}.
\* An entry {} and an entry {"liked": ...} are read back as they were written.
load_metadata(content) ==
    IF content.kind = "data" /\ content.valid THEN content.map ELSE EmptyMap

\* The bytes of the file after a writer that opened it with 'w' flushes its
\* text at offset 0: the text alone when nothing longer was written to the
\* file since this writer truncated it, otherwise the text followed by the
\* tail of the longer content, which is no JSON text.
Flush(content, buf) ==
    IF JsonLen(buf) >= content.len
    THEN JsonOf(buf)
    ELSE [kind |-> "data", valid |-> FALSE, map |-> EmptyMap, len |-> content.len]

\* A request handler thread of toggle_like or delete_photo: its position, its
\* filename, the local current_status and the text json.dump produced.
NoHandler == [kind |-> "none", pc |-> "none", filename |-> "", current_status |-> FALSE,
              buf |-> EmptyMap]

InFlight == {h \in Handlers : handlers[h].kind # "none"}

SetHandler(h, rec) == handlers' = [handlers EXCEPT ![h] = rec]

At(h, kind, pc) == handlers[h].kind = kind /\ handlers[h].pc = pc

Goto(h, pc) == SetHandler(h, [handlers[h] EXCEPT !.pc = pc])

\* The handler ends: a response is sent, or an exception leaves the view.
Done(h) == SetHandler(h, NoHandler)

\* A request reaches its view function in a thread of its own.
Dispatch(kind, pc, f) ==
    /\ mhist.requests < MaxRequests
    /\ \E h \in Handlers :
          /\ handlers[h].kind = "none"
          /\ \A g \in Handlers : g < h => handlers[g].kind # "none"
          /\ SetHandler(h, [NoHandler EXCEPT !.kind = kind, !.pc = pc, !.filename = f])
    /\ mhist' = [mhist EXCEPT !.requests = @ + 1,
                              !.log = Append(@, [kind |-> kind, filename |-> f]),
                              !.overlap = @ \/ InFlight # {}]

\* POST /api/like/<filename>   (server.py:206-209)
like_request ==
    /\ \E f \in Filenames : Dispatch("like", "check", f)
    /\ UNCHANGED <<photo_metadata, photos, thermals, metadata_file>>
    /\ UNCHANGED not_meta_vars

\* if filename not in photo_metadata:   (server.py:211)
like_check(h) ==
    /\ At(h, "like", "check")
    /\ Goto(h, IF photo_metadata[handlers[h].filename] = "absent" THEN "insert" ELSE "get")
    /\ UNCHANGED <<photo_metadata, photos, thermals, metadata_file, mhist>>
    /\ UNCHANGED not_meta_vars

\* photo_metadata[filename] = {}   (server.py:212)
like_insert(h) ==
    /\ At(h, "like", "insert")
    /\ photo_metadata' = [photo_metadata EXCEPT ![handlers[h].filename] = "empty"]
    /\ Goto(h, "get")
    /\ UNCHANGED <<photos, thermals, metadata_file, mhist>>
    /\ UNCHANGED not_meta_vars

\* current_status = photo_metadata[filename].get("liked", False)   (server.py:214)
\* KeyError when the entry is gone: the view ends with the exception.
like_get(h) ==
    LET v == photo_metadata[handlers[h].filename] IN
    /\ At(h, "like", "get")
    /\ IF v = "absent"
       THEN Done(h)
       ELSE SetHandler(h, [handlers[h] EXCEPT !.pc = "set", !.current_status = (v = "liked")])
    /\ UNCHANGED <<photo_metadata, photos, thermals, metadata_file, mhist>>
    /\ UNCHANGED not_meta_vars

\* The value stored by the toggle.
Toggled(current_status) == IF current_status THEN "unliked" ELSE "liked"

\* photo_metadata[filename]["liked"] = not current_status   (server.py:215)
like_set(h) ==
    LET f == handlers[h].filename IN
    /\ At(h, "like", "set")
    /\ IF photo_metadata[f] = "absent"
       THEN /\ Done(h)
            /\ UNCHANGED photo_metadata
       ELSE /\ photo_metadata' = [photo_metadata EXCEPT
                                    ![f] = Toggled(handlers[h].current_status)]
            /\ Goto(h, "save_open")
    /\ UNCHANGED <<photos, thermals, metadata_file, mhist>>
    /\ UNCHANGED not_meta_vars

\* save_metadata: open(METADATA_FILE, 'w')   (server.py:87-88)
\* The file is created or truncated, or open raises and the except clause of
\* save_metadata swallows the error (server.py:90-91).
save_open(h) ==
    /\ handlers[h].pc = "save_open"
    /\ \E opened \in BOOLEAN :
          IF opened
          THEN /\ metadata_file' = Truncated
               /\ Goto(h, "save_dump")
               /\ UNCHANGED mhist
          ELSE /\ Goto(h, "saved")
               /\ mhist' = [mhist EXCEPT !.write_failed = TRUE]
               /\ UNCHANGED metadata_file
    /\ UNCHANGED <<photo_metadata, photos, thermals>>
    /\ UNCHANGED not_meta_vars

\* save_metadata: json.dump(photo_metadata, f)   (server.py:89)
\* The text of the map as it is now goes to the buffer of the file object.
save_dump(h) ==
    /\ handlers[h].pc = "save_dump"
    /\ SetHandler(h, [handlers[h] EXCEPT !.pc = "save_close", !.buf = photo_metadata])
    /\ UNCHANGED <<photo_metadata, photos, thermals, metadata_file, mhist>>
    /\ UNCHANGED not_meta_vars

\* save_metadata: the end of the with block flushes the buffer and closes the
\* file   (server.py:88-91).  The write may fail (disk full): the file keeps
\* what it held and the error is swallowed.
save_close(h) ==
    /\ handlers[h].pc = "save_close"
    /\ \E written \in BOOLEAN :
          IF written
          THEN /\ metadata_file' = Flush(metadata_file, handlers[h].buf)
               /\ UNCHANGED mhist
          ELSE /\ mhist' = [mhist EXCEPT !.write_failed = TRUE]
               /\ UNCHANGED metadata_file
    /\ SetHandler(h, [handlers[h] EXCEPT !.pc = "saved", !.buf = EmptyMap])
    /\ UNCHANGED <<photo_metadata, photos, thermals>>
    /\ UNCHANGED not_meta_vars

\* "liked": photo_metadata[filename]["liked"] in the response of toggle_like
\* (server.py:222); KeyError when the entry or its flag is not there
LikedInResponse(entry) == IF entry \in {"absent", "empty"} THEN "raised" ELSE entry

\* The statements after save_metadata(): toggle_like builds its response from
\* photo_metadata[filename]["liked"] (server.py:219-223), delete_photo returns
\* (server.py:280).
handler_return(h) ==
    /\ handlers[h].pc = "saved"
    /\ Done(h)
    /\ mhist' = [mhist EXCEPT !.liked =
                    IF handlers[h].kind = "like"
                    THEN LikedInResponse(photo_metadata[handlers[h].filename])
                    ELSE @]
    /\ UNCHANGED <<photo_metadata, photos, thermals, metadata_file>>
    /\ UNCHANGED not_meta_vars

\* POST /api/delete/<filename>   (server.py:257-262)
delete_request ==
    /\ \E f \in Filenames : Dispatch("delete", "exists", f)
    /\ UNCHANGED <<photo_metadata, photos, thermals, metadata_file>>
    /\ UNCHANGED not_meta_vars

\* if not os.path.exists(filepath): return 404   (server.py:264-265)
delete_exists(h) ==
    /\ At(h, "delete", "exists")
    /\ IF handlers[h].filename \in photos THEN Goto(h, "remove") ELSE Done(h)
    /\ UNCHANGED <<photo_metadata, photos, thermals, metadata_file, mhist>>
    /\ UNCHANGED not_meta_vars

\* os.remove(filepath)   (server.py:268)
\* FileNotFoundError when another request removed the file: except, 500.
delete_remove(h) ==
    LET f == handlers[h].filename IN
    /\ At(h, "delete", "remove")
    /\ IF f \in photos
       THEN /\ photos' = photos \ {f}
            /\ Goto(h, "thermal")
       ELSE /\ Done(h)
            /\ UNCHANGED photos
    /\ UNCHANGED <<photo_metadata, thermals, metadata_file, mhist>>
    /\ UNCHANGED not_meta_vars

\* thermal_path: if os.path.exists(thermal_path): os.remove(thermal_path)
\* (server.py:271-273)
delete_thermal(h) ==
    /\ At(h, "delete", "thermal")
    /\ thermals' = thermals \ {handlers[h].filename}
    /\ Goto(h, "meta")
    /\ UNCHANGED <<photo_metadata, photos, metadata_file, mhist>>
    /\ UNCHANGED not_meta_vars

\* if filename in photo_metadata:   (server.py:276)
delete_meta(h) ==
    /\ At(h, "delete", "meta")
    /\ IF photo_metadata[handlers[h].filename] # "absent" THEN Goto(h, "del") ELSE Done(h)
    /\ UNCHANGED <<photo_metadata, photos, thermals, metadata_file, mhist>>
    /\ UNCHANGED not_meta_vars

\* del photo_metadata[filename]   (server.py:277)
\* KeyError when the entry is gone already: except, 500.  Otherwise
\* save_metadata() follows (server.py:278).
delete_del(h) ==
    LET f == handlers[h].filename IN
    /\ At(h, "delete", "del")
    /\ IF photo_metadata[f] = "absent"
       THEN /\ Done(h)
            /\ UNCHANGED photo_metadata
       ELSE /\ photo_metadata' = [photo_metadata EXCEPT ![f] = "absent"]
            /\ Goto(h, "save_open")
    /\ UNCHANGED <<photos, thermals, metadata_file, mhist>>
    /\ UNCHANGED not_meta_vars

NextMeta ==
    \/ like_request
    \/ delete_request
    \/ \E h \in Handlers : like_check(h)
    \/ \E h \in Handlers : like_insert(h)
    \/ \E h \in Handlers : like_get(h)
    \/ \E h \in Handlers : like_set(h)
    \/ \E h \in Handlers : save_open(h)
    \/ \E h \in Handlers : save_dump(h)
    \/ \E h \in Handlers : save_close(h)
    \/ \E h \in Handlers : handler_return(h)
    \/ \E h \in Handlers : delete_exists(h)
    \/ \E h \in Handlers : delete_remove(h)
    \/ \E h \in Handlers : delete_thermal(h)
    \/ \E h \in Handlers : delete_meta(h)
    \/ \E h \in Handlers : delete_del(h)

\* The photo directory and the metadata file as earlier runs left them, and the
\* module-level load_metadata()   (server.py:72-93).
\* History: requests = number of requests dispatched, log = their kinds and
\* filenames in the order of dispatch, write_failed = a save_metadata call has
\* failed, start = the map and the photos the process started with, overlap =
\* a request was dispatched while a handler was in flight, liked = the "liked"
\* of the last toggle_like response (none yet, or raised for an exception).
InitMeta ==
    /\ photos \in SUBSET Filenames
    /\ thermals \in SUBSET photos
    /\ metadata_file \in {NoFile} \cup {JsonOf(m) : m \in {EmptyMap,
                              [EmptyMap EXCEPT !["photo_1.jpg"] = "liked"]}}
    /\ photo_metadata = load_metadata(metadata_file)
    /\ handlers = [h \in Handlers |-> NoHandler]
    /\ mhist = [requests |-> 0, log |-> <<>>, write_failed |-> FALSE,
                overlap |-> FALSE, liked |-> "none",
                start |-> [map |-> photo_metadata, photos |-> photos]]

\* A new installation: no photos, no metadata file.
FreshMeta ==
    /\ InitMeta
    /\ photos = {}
    /\ metadata_file = NoFile

(***************************************************************************)
(*              server.py, the authentication gate and routing             *)
(***************************************************************************)

\* The browsers that talk to the server, each with its own session cookie.
Clients == {"phone_1", "phone_2"}

Methods == {"GET", "POST", "OPTIONS"}

\* A request path is the sequence of its segments: /api/auth/login is
\* <<"api", "auth", "login">> and / is <<>>.
RequestPaths ==
    {<<>>, <<"gallery">>, <<"api">>, <<"api", "nothing">>,
     <<"api", "auth", "login">>, <<"api", "auth", "status">>, <<"api", "auth", "logout">>,
     <<"api", "status">>, <<"api", "photos">>, <<"api", "photo">>, <<"api", "strip">>}
    \cup {<<"api", "like", f>> : f \in Filenames}
    \cup {<<"api", "reprint", f>> : f \in Filenames}
    \cup {<<"api", "delete", f>> : f \in Filenames}
    \cup {<<"photos", f>> : f \in Filenames}

\* server.py:96-99
PUBLIC_API_PATHS == {<<"api", "auth", "login">>, <<"api", "auth", "status">>}

\* request.path.startswith("/api/")
StartsWithApi(path) == Len(path) >= 2 /\ path[1] = "api"

\* require_api_authentication, the before_request hook: "pass" for None, or the
\* 401 response   (server.py:106-121)
require_api_authentication_AuthPrefix(path, method, authenticated) ==
    IF ~StartsWithApi(path) THEN "pass"
    ELSE IF method = "OPTIONS" THEN "pass"
    ELSE IF path[2] = "auth" THEN "pass"
    ELSE IF authenticated THEN "pass"
    ELSE "401"

require_api_authentication(path, method, authenticated) ==
    IF ~StartsWithApi(path) THEN "pass"
    ELSE IF method = "OPTIONS" THEN "pass"
    ELSE IF path \in PUBLIC_API_PATHS THEN "pass"
    ELSE IF authenticated THEN "pass"
    ELSE "401"

\* The routes of the application: the view a path belongs to and the method it
\* takes   (the @app.route lines of server.py:124-426)
RouteOf(path) ==
    IF path = <<>> THEN "index"
    ELSE IF path = <<"gallery">> THEN "gallery"
    ELSE IF path = <<"api", "auth", "status">> THEN "auth_status"
    ELSE IF path = <<"api", "auth", "login">> THEN "auth_login"
    ELSE IF path = <<"api", "auth", "logout">> THEN "auth_logout"
    ELSE IF path = <<"api", "status">> THEN "status"
    ELSE IF path = <<"api", "photos">> THEN "list_photos"
    ELSE IF path = <<"api", "photo">> THEN "take_photo"
    ELSE IF path = <<"api", "strip">> THEN "take_strip"
    ELSE IF Len(path) = 3 /\ path[1] = "api" /\ path[2] = "like" THEN "toggle_like"
    ELSE IF Len(path) = 3 /\ path[1] = "api" /\ path[2] = "reprint" THEN "reprint_photo"
    ELSE IF Len(path) = 3 /\ path[1] = "api" /\ path[2] = "delete" THEN "delete_photo"
    ELSE IF Len(path) = 2 /\ path[1] = "photos" THEN "serve_photo"
    ELSE "404"

PostRoutes == {"auth_login", "auth_logout", "take_photo", "take_strip",
               "toggle_like", "reprint_photo", "delete_photo"}

\* What Flask does with a request once the before_request hooks have let it
\* through: the view it calls, or the response it makes itself.
ViewOf(path, method) ==
    LET route == RouteOf(path) IN
    IF route = "404" THEN "404"
    ELSE IF method = "OPTIONS" THEN "options"
    ELSE IF (method = "POST") # (route \in PostRoutes) THEN "405"
    ELSE route

NoRequest == [client |-> "", method |-> "", path |-> <<>>, gate |-> "", view |-> "", n |-> 0]

\* A thread is started in the first free slot.
StartThread(kind, pc, f) ==
    \E h \in Handlers :
       /\ handlers[h].kind = "none"
       /\ \A g \in Handlers : g < h => handlers[g].kind # "none"
       /\ SetHandler(h, [NoHandler EXCEPT !.kind = kind, !.pc = pc, !.filename = f])

Logged(kind, f) ==
    mhist' = [mhist EXCEPT !.requests = @ + 1,
                           !.log = Append(@, [kind |-> kind, filename |-> f]),
                           !.overlap = @ \/ InFlight # {}]

\* One HTTP request: the before_request hook, then routing, then the start of
\* the view   (server.py:106-121 and the views it guards)
http_request ==
    /\ last_request.n < MaxHttp
    /\ \E c \in Clients, method \in Methods, path \in RequestPaths, password_ok \in BOOLEAN :
         LET gate == require_api_authentication(path, method, api_authenticated[c])
             view == IF gate = "pass" THEN ViewOf(path, method) ELSE "none"
             f    == IF Len(path) >= 2 THEN path[Len(path)] ELSE ""
         IN  /\ last_request' = [client |-> c, method |-> method, path |-> path,
                                 gate |-> gate, view |-> view, n |-> last_request.n + 1]
             /\ IF view = "auth_login"
                \* session["api_authenticated"] = True, or session.pop and 401
                THEN api_authenticated' = [api_authenticated EXCEPT ![c] = password_ok]
                ELSE IF view = "auth_logout"
                THEN api_authenticated' = [api_authenticated EXCEPT ![c] = FALSE]
                ELSE UNCHANGED api_authenticated
             /\ IF view = "take_photo" THEN Admit("photo", "photo")
                ELSE IF view = "take_strip" THEN Admit("strip", "strip")
                ELSE UNCHANGED server_vars
             /\ IF view = "toggle_like"
                THEN /\ StartThread("like", "check", f)
                     /\ Logged("like", f)
                ELSE IF view = "delete_photo"
                THEN /\ StartThread("delete", "exists", f)
                     /\ Logged("delete", f)
                ELSE IF view = "reprint_photo" /\ f \in photos
                \* threading.Thread(target=do_print).start()   (server.py:246-247)
                THEN /\ StartThread("reprint", "thermal", f)
                     /\ UNCHANGED mhist
                ELSE UNCHANGED <<handlers, mhist>>
             /\ UNCHANGED <<photo_metadata, photos, thermals, metadata_file>>
    /\ UNCHANGED <<joy_vars, kiosk_vars, print_vars, frame_vars, strip_vars, loop_vars>>

\* do_print: process_for_thermal(filepath, is_strip)   (server.py:237-243)
\* It raises when the photo is gone, and may raise otherwise; when it returns
\* the _thermal.png is there.
reprint_thermal(h) ==
    LET f == handlers[h].filename IN
    /\ At(h, "reprint", "thermal")
    /\ \E raised \in BOOLEAN :
          IF raised \/ f \notin photos
          THEN /\ Done(h)
               /\ UNCHANGED thermals
          ELSE /\ Goto(h, "print")
               /\ thermals' = thermals \cup {f}
    /\ UNCHANGED <<photo_metadata, photos, metadata_file, mhist>>
    /\ UNCHANGED not_meta_vars

\* do_print: print_photo(thermal_path), True or False   (server.py:244)
reprint_print(h) ==
    /\ At(h, "reprint", "print")
    /\ Done(h)
    /\ UNCHANGED <<photo_metadata, photos, thermals, metadata_file, mhist>>
    /\ UNCHANGED not_meta_vars

ServerThreads ==
    \/ \E w \in Workers : capture_start(w)
    \/ \E w \in Workers : photo_status(w)
    \/ \E w \in Workers : photo_capture(w)
    \/ \E w \in Workers : strip_countdown(w)
    \/ \E w \in Workers : strip_snap(w)
    \/ \E w \in Workers : strip_capture(w)
    \/ \E w \in Workers : strip_stitch(w)
    \/ \E w \in Workers : worker_print(w)
    \/ \E w \in Workers : worker_finally(w)

MetaThreads ==
    \/ \E h \in Handlers : like_check(h)
    \/ \E h \in Handlers : like_insert(h)
    \/ \E h \in Handlers : like_get(h)
    \/ \E h \in Handlers : like_set(h)
    \/ \E h \in Handlers : save_open(h)
    \/ \E h \in Handlers : save_dump(h)
    \/ \E h \in Handlers : save_close(h)
    \/ \E h \in Handlers : handler_return(h)
    \/ \E h \in Handlers : delete_exists(h)
    \/ \E h \in Handlers : delete_remove(h)
    \/ \E h \in Handlers : delete_thermal(h)
    \/ \E h \in Handlers : delete_meta(h)
    \/ \E h \in Handlers : delete_del(h)

NextAuth ==
    \/ http_request
    \/ ServerThreads
    \/ MetaThreads
    \/ \E h \in Handlers : reprint_thermal(h)
    \/ \E h \in Handlers : reprint_print(h)

\* No request has been made.  A browser may hold the cookie of a session that
\* logged in while the server ran before.
InitAuth ==
    /\ api_authenticated \in {[c \in Clients |-> FALSE],
                              [c \in Clients |-> c = "phone_1"]}
    /\ last_request = NoRequest

NoSessions == api_authenticated = [c \in Clients |-> FALSE]

(***************************************************************************)
(*           PhotoboothCamera, the frame source (from the spec)            *)
(***************************************************************************)

\* A frame is the ordinal of the device read that produced it; None is no frame.

\* What a failed device read leaves in the slot.
SlotAfterFailedRead_Cleared(slot) == None

SlotAfterFailedRead(slot) == slot

\* Where the loop goes after a failed read and its short sleep.
AfterFailedRead_GivesUp == "exited"

AfterFailedRead == "while"

\* get_latest_frame: the object handed to the caller is a copy of the slot's
\* frame (alias = FALSE) and never the slot's frame itself.
GetLatestFrame_NoCopy(slot) == [frame |-> slot, alias |-> slot # None]

GetLatestFrame(slot) == [frame |-> slot, alias |-> FALSE]

\* The acquisition loop tests its stop signal once per iteration.
acq_while ==
    /\ acq_pc = "while"
    /\ acq_pc' = IF cam_running THEN "read" ELSE "exited"
    /\ UNCHANGED <<frame_slot, slot_marked, acq_frame, cam_running, reader, fhist>>
    /\ UNCHANGED not_frame_vars

\* Pull one frame from the device: a frame, or a transient error.
acq_read ==
    /\ acq_pc = "read"
    /\ \E ok \in BOOLEAN :
          IF ok /\ fhist.frames < MaxFrames
          THEN /\ acq_frame' = fhist.frames + 1
               /\ fhist' = [fhist EXCEPT !.frames = @ + 1]
               /\ acq_pc' = "publish"
               /\ UNCHANGED frame_slot
          ELSE /\ frame_slot' = SlotAfterFailedRead(frame_slot)
               /\ acq_pc' = "sleep"
               /\ fhist' = [fhist EXCEPT !.failed = TRUE]
               /\ UNCHANGED acq_frame
    /\ UNCHANGED <<slot_marked, cam_running, reader>>
    /\ UNCHANGED not_frame_vars

\* On success: replace the shared slot, in a short critical section.
acq_publish ==
    /\ acq_pc = "publish"
    /\ frame_slot' = acq_frame
    /\ slot_marked' = FALSE
    /\ acq_frame' = None
    /\ fhist' = [fhist EXCEPT !.written = acq_frame, !.failed = FALSE]
    /\ acq_pc' = "while"
    /\ UNCHANGED <<cam_running, reader>>
    /\ UNCHANGED not_frame_vars

\* On failure: sleep briefly and retry.
acq_sleep ==
    /\ acq_pc = "sleep"
    /\ acq_pc' = AfterFailedRead
    /\ UNCHANGED <<frame_slot, slot_marked, acq_frame, cam_running, reader, fhist>>
    /\ UNCHANGED not_frame_vars

\* stop(): the cooperative stop signal.
cam_stop ==
    /\ cam_running
    /\ cam_running' = FALSE
    /\ UNCHANGED <<frame_slot, slot_marked, acq_pc, acq_frame, reader, fhist>>
    /\ UNCHANGED not_frame_vars

\* A reader calls get_latest_frame(): the copy is made in a short critical
\* section and the call returns.
get_latest_frame ==
    /\ reader' = [got |-> GetLatestFrame(frame_slot), n |-> 1 - reader.n]
    /\ UNCHANGED <<frame_slot, slot_marked, acq_pc, acq_frame, cam_running, fhist>>
    /\ UNCHANGED not_frame_vars

\* The reader draws on the frame it was given (kiosk.py:252-277: flip, banner,
\* countdown digits).
reader_draw ==
    /\ reader.got.frame # None
    /\ slot_marked' = (slot_marked \/ (reader.got.alias /\ reader.got.frame = frame_slot))
    /\ reader' = [reader EXCEPT !.got.frame = None, !.got.alias = FALSE]
    /\ UNCHANGED <<frame_slot, acq_pc, acq_frame, cam_running, fhist>>
    /\ UNCHANGED not_frame_vars

NextFrame ==
    \/ acq_while
    \/ acq_read
    \/ acq_publish
    \/ acq_sleep
    \/ cam_stop
    \/ get_latest_frame
    \/ reader_draw

\* start(): the device is open, the loop begins, no frame has been read.
\* History: frames = number of device reads that succeeded, written = the frame
\* the loop stored last, failed = a device read has failed since.
InitFrame ==
    /\ frame_slot = None
    /\ slot_marked = FALSE
    /\ acq_pc = "while"
    /\ acq_frame = None
    /\ cam_running = TRUE
    /\ reader = [got |-> [frame |-> None, alias |-> FALSE], n |-> 0]
    /\ fhist = [frames |-> 0, written |-> None, failed |-> FALSE]

(***************************************************************************)
(*                   photobooth.py, create_photo_strip                     *)
(***************************************************************************)

\* The widths and heights of the input images.  Every quotient of two of them
\* is a power of two, so img.height / img.width is exact in floating point.
Sides == {288, 576, 1152}

ImageSizes == [width : Sides, height : Sides]

RECURSIVE ImageLists(_)
\* The lists of at most n images.
ImageLists(n) ==
    IF n = 0 THEN {<<>>}
    ELSE LET shorter == ImageLists(n - 1)
         IN  shorter \cup {Append(l, img) : l \in {s \in shorter : Len(s) = n - 1},
                                              img \in ImageSizes}

\* target_width = 576   (photobooth.py:468)
target_width == 576

\* The size img.resize is asked for   (photobooth.py:470-473)
\* aspect = img.height / img.width; new_height = int(target_width * aspect)
Resized(img) ==
    [width |-> target_width, height |-> (target_width * img.height) \div img.width]

RECURSIVE SumHeights(_)
SumHeights(resized) ==
    IF resized = <<>> THEN 0 ELSE Head(resized).height + SumHeights(Tail(resized))

\* total_height   (photobooth.py:476)
TotalHeight(resized, spacing) == SumHeights(resized) + spacing * (Len(resized) - 1)

\* create_photo_strip(photo_paths, spacing): whether a file is saved and the
\* size of the image in it   (photobooth.py:460-492)
StripImage(images, spacing) ==
    IF images = <<>>
    THEN [saved |-> FALSE, width |-> 0, height |-> 0]
    ELSE LET resized == [k \in 1..Len(images) |-> Resized(images[k])]
         IN  [saved |-> TRUE, width |-> target_width,
              height |-> TotalHeight(resized, spacing)]

\* One call of create_photo_strip on the images and the spacing given.
create_strip_call ==
    /\ cs_result = [called |-> FALSE, saved |-> FALSE, width |-> 0, height |-> 0]
    /\ LET strip == StripImage(cs_images, cs_spacing)
       IN  cs_result' = [called |-> TRUE, saved |-> strip.saved,
                         width |-> strip.width, height |-> strip.height]
    /\ UNCHANGED <<cs_images, cs_spacing>>
    /\ UNCHANGED not_strip_vars

NextStrip == create_strip_call

\* The arguments of a call that has not been made: up to MaxImages images, and
\* the default spacing of 20 or none.
InitStrip ==
    /\ cs_images \in ImageLists(MaxImages)
    /\ cs_spacing \in {0, 20}
    /\ cs_result = [called |-> FALSE, saved |-> FALSE, width |-> 0, height |-> 0]

NoStripCall == cs_images = <<>> /\ cs_spacing = 20

(***************************************************************************)
(*                           specifications                                *)
(***************************************************************************)

\* What is not the server, the joystick, the kiosk or print_photo is as it is
\* before it is first used.
InitRest ==
    FreshMeta /\ InitAuth /\ NoSessions /\ InitFrame /\ InitStrip /\ NoStripCall /\ InitLoop

Init == InitServer /\ InitJoy /\ InitKiosk /\ InitPrint /\ InitRest

SpecServer == Init /\ [][NextServer]_vars

\* The joystick and the kiosk run without the server: its camera is of no matter.
InitAlone == Init /\ camera

SpecJoy == InitAlone /\ [][NextJoy]_vars

SpecStop == InitAlone /\ [][NextStop]_vars

SpecPrint == InitAlone /\ [][NextPrint]_vars

SpecKiosk == InitAlone /\ [][NextKiosk]_vars

\* The kiosk with its display: run() builds the frame before every _tick.
SpecLoop == InitAlone /\ [][NextLoop]_vars

\* One of the two programs that own the camera runs, the web server or the
\* kiosk, while the other has not been started.
NextEither ==
    \/ InitKiosk /\ NextServer
    \/ InitServer /\ camera /\ NextKiosk

SpecEither == Init /\ [][NextEither]_vars

\* The metadata handlers of a server whose photo directory earlier runs filled.
InitWithPhotos ==
    InitServer /\ camera /\ InitJoy /\ InitKiosk /\ InitPrint /\ InitMeta /\ InitAuth
    /\ NoSessions /\ InitFrame /\ InitStrip /\ NoStripCall /\ InitLoop

SpecMeta == InitWithPhotos /\ [][NextMeta]_vars

\* The server behind its gate, with both photos in the directory and one of
\* them liked.
InitGated ==
    /\ InitServer /\ camera /\ InitJoy /\ InitKiosk /\ InitPrint /\ InitMeta /\ InitAuth
    /\ InitFrame /\ InitStrip /\ NoStripCall /\ InitLoop
    /\ photos = Filenames /\ thermals = {} /\ metadata_file # NoFile
    /\ photo_metadata # EmptyMap

SpecAuth == InitGated /\ [][NextAuth]_vars

SpecFrame == InitAlone /\ [][NextFrame]_vars

\* create_photo_strip on every list of images within the bounds.
InitStripCalls ==
    /\ InitServer /\ camera /\ InitJoy /\ InitKiosk /\ InitPrint
    /\ FreshMeta /\ InitAuth /\ NoSessions /\ InitFrame /\ InitStrip /\ InitLoop

SpecStrip == InitStripCalls /\ [][NextStrip]_vars

\* Threads that are runnable keep running: every capture() thread of the server
\* takes its next step.
FairServer ==
    SpecServer /\ \A w \in Workers :
        WF_vars(capture_start(w) \/ photo_status(w) \/ photo_capture(w)
                \/ strip_countdown(w) \/ strip_snap(w) \/ strip_capture(w)
                \/ strip_stitch(w) \/ worker_print(w) \/ worker_finally(w))

\* The kiosk loop keeps ticking, the print thread keeps running, time passes.
FairKiosk ==
    SpecKiosk /\ WF_vars(tick) /\ WF_vars(kiosk_time)
              /\ WF_vars(print_thermal \/ print_print \/ print_finally)

(***************************************************************************)
(*                               claims                                    *)
(***************************************************************************)

\* C1 (as claimed): single-flight gate.  At most one capture() thread of
\* take_photo / take_strip exists at any time: of two admission attempts made
\* while photo_in_progress is false, only one is admitted.
C1_SingleFlight == Cardinality(Alive) <= 1

\* C2: gate release.  Every capture() thread that was started runs to its
\* finally clause and ends, whatever capture, stitching, thermal processing and
\* printing do, and whenever photo_in_progress is true it becomes false again.
C2_GateRelease ==
    /\ \A w \in Workers : (workers[w].pc \notin {"none", "start"}) ~> (workers[w].pc = "none")
    /\ photo_in_progress ~> ~photo_in_progress

\* C2 witness: a workflow ended in error, its thread is gone and the gate is clear.
C2_Witness ==
    /\ Alive = {}
    /\ last_result.status = "error"
    /\ ~photo_in_progress

\* C3 (as claimed): of two rising edges of K1 or K2 less than DEBOUNCE_SECONDS
\* apart, the second fires no callback.
C3_AnyTwoEdges ==
    /\ Len(jtruth.edges) = 2
    /\ BitAnd(jtruth.edges[1].rising, 48) # 0
    /\ BitAnd(jtruth.edges[2].rising, 48) # 0
    /\ jtruth.edges[2].t - jtruth.edges[1].t < DEBOUNCE_SECONDS
    => jtruth.edges[2].cb = "none"

\* C3 (amended): two callback invocations are never less than DEBOUNCE_SECONDS
\* apart: a rising edge that comes less than DEBOUNCE_SECONDS after the last
\* accepted press (one that invoked a callback) invokes none.
C3_Debounce ==
    /\ Len(jtruth.fires) = 2 => jtruth.fires[2] - jtruth.fires[1] >= DEBOUNCE_SECONDS
    /\ Len(jtruth.edges) = 2 /\ jtruth.edges[1].cb # "none"
         /\ jtruth.edges[2].t - jtruth.edges[1].t < DEBOUNCE_SECONDS
            => jtruth.edges[2].cb = "none"

\* C3 witness: K1 rose and fired on_single_photo, K2 rose within the window and
\* fired nothing.
C3_Witness ==
    /\ Len(jtruth.edges) = 2
    /\ jtruth.edges[1].cb = "single"
    /\ jtruth.edges[2].rising = 32
    /\ jtruth.edges[2].cb = "none"
    /\ jtruth.edges[2].t - jtruth.edges[1].t < DEBOUNCE_SECONDS

\* C4: edge, not level.  A callback is invoked only by a report in which its
\* button is set while it was clear in the previous report of the connection;
\* a report that repeats the bits of the previous one invokes nothing.
C4_EdgeNotLevel ==
    [][/\ jfired' = "single" => BitAnd(jtruth.held, 16) = 0 /\ BitAnd(jtruth'.held, 16) = 16
       /\ jfired' = "strip"  => BitAnd(jtruth.held, 32) = 0 /\ BitAnd(jtruth'.held, 32) = 32
       /\ jtruth'.repeat => jfired' = "none"]_vars

\* C4 witness: K1 is still held in a repeated report, long after the debounce
\* window of its press has run out, and nothing fired.
C4_Witness ==
    /\ jtruth.repeat
    /\ BitAnd(jtruth.held, 16) = 16
    /\ last_press_time > 0
    /\ jnow - last_press_time >= DEBOUNCE_SECONDS
    /\ jfired = "none"

\* C5 (as claimed): a button that was down in the last report before the read
\* failure and is still down in the first report after the reconnect invokes
\* no callback in that report.
C5_NoFireAfterReconnect ==
    jtruth.first =>
        /\ jfired = "single" => BitAnd(jtruth.before, 16) = 0
        /\ jfired = "strip"  => BitAnd(jtruth.before, 32) = 0

NoOutput ==
    IF is_strip THEN strip_paths = <<>> ELSE khist.last_capture = None

\* C7: no output, no print.  PRINTING and the print thread exist only with a
\* non-null _current_print_path; a session whose capture produced nothing has a
\* null path in REVIEW, and REVIEW with a null path is left for IDLE without a
\* print thread.
C7_NoOutputNoPrint ==
    /\ [](/\ state = "PRINTING" => current_print_path # None
          /\ print_thread.pc # "none" => print_thread.path # None
          /\ state = "REVIEW" /\ NoOutput => current_print_path = None)
    /\ [][state = "REVIEW" /\ current_print_path = None /\ state' # "REVIEW"
            => state' = "IDLE" /\ print_thread' = print_thread /\ print_thread.pc = "none"]_vars

\* C7 witness: a session whose capture failed is back in IDLE and nothing was printed.
C7_Witness ==
    /\ state = "IDLE"
    /\ khist.returned
    /\ current_print_path = None
    /\ print_thread.pc = "none"
    /\ ~print_done

StrictlyIncreasing(seq) == \A i \in 1..Len(seq) - 1 : seq[i] < seq[i + 1]

\* C8: the mailbox is one overwritable slot.  The trigger it holds is the last
\* one posted; the triggers consumed are distinct; a drain takes the trigger in
\* the slot, empties the slot and starts one session.
C8_Mailbox ==
    /\ [](/\ pending_action # NoAction => pending_action.id = khist.posted
          /\ StrictlyIncreasing(khist.consumed))
    /\ [][khist.consumed' # khist.consumed
            => /\ khist.consumed' = Append(khist.consumed, khist.posted)
               /\ pending_action = [action |-> pending_action.action, id |-> khist.posted]
               /\ pending_action' = NoAction
               /\ state = "IDLE" /\ state' = "COUNTDOWN"
               /\ is_strip' = (pending_action.action = "strip")]_vars

\* C8 witness: two triggers were posted before a drain and the drain started
\* one session, with the second.
C8_Witness ==
    /\ khist.posted = 2
    /\ khist.consumed = <<2>>
    /\ pending_action = NoAction
    /\ state = "COUNTDOWN"

\* C9 (as claimed): every _tick, in every session state, leaves the mailbox empty.
C9_DrainEveryTick ==
    [][khist.ticks' # khist.ticks => pending_action' = NoAction]_vars

\* C9 (amended): every _tick taken in IDLE leaves the mailbox empty; a _tick in
\* any other state leaves the mailbox as it was.
C9_DrainInIdle ==
    [][khist.ticks' # khist.ticks
         => IF state = "IDLE" THEN pending_action' = NoAction
                              ELSE pending_action' = pending_action]_vars

\* C9 witness: a trigger posted during a session is still in the mailbox.
C9_Witness ==
    /\ state \notin {"IDLE"}
    /\ pending_action # NoAction
    /\ Len(khist.consumed) = 1

\* C10: admission responses.  400 if the gate is busy, else 500 if there is no
\* camera, else "started" with one new capture() thread; a 400 or 500 changes
\* neither the threads, nor photo_in_progress, nor last_result.
C10_Admission ==
    [][response' # response
         => /\ response'.code = (IF photo_in_progress THEN 400
                                 ELSE IF ~camera THEN 500 ELSE 200)
            /\ response'.code \in {400, 500}
                 => UNCHANGED <<workers, photo_in_progress, last_result>>
            /\ response'.code = 200
                 => /\ UNCHANGED <<photo_in_progress, last_result>>
                    /\ \E w \in Workers :
                         /\ workers[w].kind = "none"
                         /\ workers'[w].pc = "start"
                         /\ \A v \in Workers \ {w} : workers'[v] = workers[v]]_vars

\* C10 witness: a request was answered 400 while a workflow held the gate.
C10_Witness ==
    /\ response.code = 400
    /\ photo_in_progress
    /\ Alive # {}

\* C11 (as claimed): when stop() has returned, the loop has exited and the
\* device is closed: no handle, connected false.
C11_StopIsSynchronous ==
    stop_pc = "returned" => jpc = "exited" /\ ~jdevice /\ ~jconnected

\* C12: the loop never ends on its own.  It is left only at the while test and
\* only after stop() has cleared _running; an open failure, an empty read, a
\* read failure and a raising callback all lead back to the while test, and a
\* failed open is followed by a sleep of RECONNECT_INTERVAL.
C12_LoopNeverEnds ==
    /\ [](jpc = "exited" => ~running /\ stop_pc # "idle")
    /\ [][jpc # jpc' => IF jpc = "while"
                        THEN jpc' = "exited" <=> ~running
                        ELSE IF jpc = "connect" /\ jdevice'
                        THEN jpc' = "read"
                        ELSE jpc' = "while"]_vars
    /\ [][jpc = "connect" /\ jpc' = "while" /\ ~jdevice'
            => jnow' = jnow + RECONNECT_INTERVAL]_vars

\* C12 witness: a callback raised, the loop slept, opened the device again and
\* is reading from it, and nobody has called stop().
C12_Witness ==
    /\ jpc = "read"
    /\ running /\ stop_pc = "idle"
    /\ jtruth.fresh
    /\ jtruth.fires # <<>>
    /\ jnow = jtruth.fires[Len(jtruth.fires)] + RECONNECT_INTERVAL
    /\ BitAnd(jtruth.before, 48) # 0

\* The buttons that rise in the report handled by a step, and the debounce
\* window seen from the callbacks that were really invoked.
RisesInStep == BitAnd(jtruth'.held, 255 - jtruth.held)

WindowOver ==
    jtruth.fires = <<>> \/ jnow - jtruth.fires[Len(jtruth.fires)] >= DEBOUNCE_SECONDS

\* C13 (as claimed): every report with a non-zero set of rising bits inside
\* BUTTON_MASK, handled at least DEBOUNCE_SECONDS after the last accepted press,
\* records the time and invokes one callback.
C13_AcceptAnyEdge ==
    [][RisesInStep # 0 /\ WindowOver
         => jfired' \in {"single", "strip"} /\ last_press_time' = jnow]_vars

\* C13 (amended): a report in which K1 or K2 rises, handled at least
\* DEBOUNCE_SECONDS after the last accepted press, records the time and invokes
\* one callback: on_single_photo if K1 rose, else on_photo_strip.  A report in
\* which only other buttons rise invokes nothing and records no time.
C13_AcceptEdge ==
    [][RisesInStep # 0 /\ WindowOver
         => IF BitAnd(RisesInStep, 16) # 0
            THEN jfired' = "single" /\ last_press_time' = jnow
            ELSE IF BitAnd(RisesInStep, 32) # 0
            THEN jfired' = "strip" /\ last_press_time' = jnow
            ELSE jfired' = "none" /\ last_press_time' = last_press_time]_vars

\* C13 witness: K1 and K2 rose in one report and on_single_photo was invoked.
C13_Witness ==
    /\ jtruth.edges # <<>>
    /\ jtruth.edges[Len(jtruth.edges)].rising = 48
    /\ jtruth.edges[Len(jtruth.edges)].cb = "single"
    /\ jfired = "single"
    /\ last_press_time = jtruth.edges[Len(jtruth.edges)].t

\* C14: printing always ends.  From PRINTING the print thread signals
\* completion, whether thermal processing raised or print_photo returned true
\* or false; a _tick taken in PRINTING after the signal enters IDLE, and one
\* taken before it stays in PRINTING.
C14_PrintingEnds ==
    /\ (state = "PRINTING") ~> (state = "PRINTING" /\ print_done)
    /\ [][state = "PRINTING" /\ khist.ticks' # khist.ticks
            => state' = (IF print_done THEN "IDLE" ELSE "PRINTING")]_vars

\* C14 witness: print_photo returned false, the thread signalled completion and
\* the kiosk is back in IDLE.
C14_Witness ==
    /\ state = "IDLE"
    /\ print_done
    /\ print_thread.pc = "none"
    /\ khist.printed = "failed"

CutOp == CHOOSE k \in 1..NumOps : PrinterOps[k] = "cut"

Returned == pp_pc = 0 /\ pp_ret # "none"

\* C15: print boundary.  A call of print_photo never ends by raising; it
\* returns False when any printer operation, the open included, fails, and it
\* returns True only when all the operations were done and none failed.
C15_PrintBoundary ==
    /\ pp_ret \in {"none", "True", "False"}
    /\ Returned => /\ pp_faults # {} => pp_ret = "False"
                   /\ pp_ret = "True" => pp_faults = {} /\ pp_performed = NumOps

\* C15 witness: the image could not be sent, and print_photo returned False.
C15_Witness ==
    /\ Returned
    /\ pp_ret = "False"
    /\ \E k \in pp_faults : PrinterOps[k] = "image" /\ pp_performed = k - 1

\* C16 (as claimed): when the paper cut is the only operation that fails,
\* print_photo closes the printer and returns True.
C16_CutIsBestEffort ==
    Returned /\ pp_faults = {CutOp} => pp_ret = "True" /\ ~pp_open

\* A step in which thread w comes to the given end, or to the given position.
Becomes(w, out) == workers[w].out # out /\ workers'[w].out = out

Enters(w, pc) == workers[w].pc # pc /\ workers'[w].pc = pc

\* C17: capture and print are decoupled in take_photo and take_strip.  A
\* thread comes to print only in the step that sets last_result to success
\* with the url of its output; a print_photo that returns False changes nothing
\* in last_result, which is still success for a workflow running alone; and
\* the thread goes on to the finally clause, which clears the gate.
C17_PrintDecoupled ==
    [][\A w \in Workers :
         /\ Enters(w, "print")
              => last_result'.status = "success" /\ last_result'.photo_url # None
         /\ Becomes(w, "printfailed")
              => /\ workers[w].pc = "print" /\ workers'[w].pc = "finally"
                 /\ last_result' = last_result
                 /\ phases # Overlap => last_result'.status = "success"
         /\ workers[w].pc = "finally" /\ workers'[w] # workers[w]
              => workers'[w] = NoWorker /\ ~photo_in_progress']_vars

\* C17 witness: print_photo returned False in a workflow running alone, and
\* last_result still says success.
C17_Witness ==
    \E w \in Workers :
       /\ workers[w].out = "printfailed"
       /\ workers[w].pc = "finally"
       /\ phases # Overlap
       /\ last_result.status = "success"
       /\ last_result.photo_url # None

\* C18: no output, no print, in take_photo and take_strip.  A capture that
\* returns none (for a strip: three of them), or a stitch that returns none,
\* takes the thread from there to the finally clause with last_result = error,
\* not by way of the except clause; a thread comes to print only with the url
\* of an output in last_result, and only after all its captures for a strip.
C18_NoOutputNoPrintServer ==
    [][\A w \in Workers :
         /\ Becomes(w, "nocapture")
              => /\ workers[w].pc = "capture" /\ workers'[w].pc = "finally"
                 /\ last_result'.status = "error"
                 /\ workers[w].kind = "strip"
                      => workers'[w].shots = [k \in 1..num_photos |-> None]
         /\ Becomes(w, "nostrip")
              => /\ workers[w].pc = "stitch" /\ workers'[w].pc = "finally"
                 /\ last_result'.status = "error"
         /\ Enters(w, "print")
              => /\ last_result'.photo_url # None
                 /\ workers[w].pc = (IF workers[w].kind = "photo" THEN "capture"
                                                                  ELSE "stitch")
         /\ Enters(w, "stitch")
              => \E k \in 1..num_photos : workers'[w].shots[k] # None]_vars

\* C18 witness: camera.capture returned none in take_photo, last_result is
\* error and the thread is at its finally clause.
C18_Witness ==
    \E w \in Workers :
       /\ workers[w].kind = "photo"
       /\ workers[w].out = "nocapture"
       /\ workers[w].pc = "finally"
       /\ last_result.status = "error"

Phase(status, index) == [status |-> status, photo_index |-> index]

\* The statuses of a strip workflow in which nothing fails.
StripPhases ==
    <<Phase("countdown", 1), Phase("capturing", 0), Phase("waiting", 0),
      Phase("countdown", 2), Phase("capturing", 0), Phase("waiting", 0),
      Phase("countdown", 3), Phase("capturing", 0),
      Phase("processing", 0), Phase("success", 0)>>

IsPrefix(p, q) == Len(p) <= Len(q) /\ p = SubSeq(q, 1, Len(p))

\* A beginning of StripPhases, or one followed by error.
InOrder(p) ==
    \/ IsPrefix(p, StripPhases)
    \/ /\ Len(p) > 1
       /\ p[Len(p)] = Phase("error", 0)
       /\ IsPrefix(SubSeq(p, 1, Len(p) - 1), StripPhases)

\* C20: strip status phases.  What a take_strip workflow running alone writes
\* to last_result is, in order: countdown(1), capturing, waiting, countdown(2),
\* capturing, waiting, countdown(3), capturing, processing, success, cut short
\* by error where the workflow fails: straight after the third capturing when
\* no shot was captured, after processing when stitching fails, and wherever
\* an exception was raised.  When the thread clears the gate the last status
\* is success or error.
C20_StripPhases ==
    /\ [](\A w \in Workers :
            workers[w].kind = "strip" /\ phases # Overlap
              => /\ InOrder(phases)
                 /\ workers[w].out = "nocapture"
                      => phases = Append(SubSeq(StripPhases, 1, 8), Phase("error", 0))
                 /\ workers[w].out = "nostrip"
                      => phases = Append(SubSeq(StripPhases, 1, 9), Phase("error", 0))
                 /\ workers[w].out \in {"printed", "printfailed"}
                      => phases = StripPhases)
    /\ [][\A w \in Workers :
            workers[w].kind = "strip" /\ workers'[w].kind = "none" /\ phases # Overlap
              => /\ phases[Len(phases)].status \in {"success", "error"}
                 /\ last_result.status = phases[Len(phases)].status
                 /\ ~photo_in_progress']_vars

\* C20 witness: a strip workflow ran alone through all its phases to success
\* and is about to clear the gate.
C20_Witness ==
    /\ phases = StripPhases
    /\ last_result.status = "success"
    /\ \E w \in Workers : workers[w].kind = "strip" /\ workers[w].pc = "finally"

\* C20 (as claimed): the statuses of a strip workflow running alone come in the
\* order countdown(1), capturing, waiting, countdown(2), capturing, waiting,
\* countdown(3), capturing, and then processing and success, or processing and
\* error, or error: no error before the third capturing, nothing after success.
C20_FullOrder ==
    \A w \in Workers :
       workers[w].kind = "strip" /\ phases # Overlap
         => \/ IsPrefix(phases, StripPhases)
            \/ phases = Append(SubSeq(StripPhases, 1, 8), Phase("error", 0))
            \/ phases = Append(SubSeq(StripPhases, 1, 9), Phase("error", 0))

IsShot(path) == path # None

\* The strip image made of the shots that succeeded, in the order taken.
StripOf(shots) ==
    IF SelectSeq(shots, IsShot) = <<>> THEN None
    ELSE 1000 + SeqNum(SelectSeq(shots, IsShot))

\* C19: partial-strip policy, kiosk and server.  The list of captured paths is
\* at all times the shots that succeeded so far, in order, a failed shot left
\* out; the workflow makes all three attempts; with one shot or more the strip
\* is stitched from exactly the successful shots and goes on to print; with
\* none the workflow ends without a stitch and without a print.
C19_PartialStrip ==
    /\ [](is_strip /\ state # "IDLE"
            => /\ strip_paths = SelectSeq(khist.shots, IsShot)
               /\ Len(khist.shots) = strip_photo_index)
    /\ [](is_strip /\ state \in {"REVIEW", "PRINTING"}
            => /\ Len(khist.shots) = STRIP_NUM_PHOTOS
               /\ current_print_path = StripOf(khist.shots)
               /\ current_print_path # None => current_is_strip)
    /\ [][is_strip /\ state = "REVIEW" /\ state' # "REVIEW"
            => IF StripOf(khist.shots) # None
               THEN /\ state' = "PRINTING"
                    /\ print_thread'.path = StripOf(khist.shots)
                    /\ print_thread'.is_strip
               ELSE state' = "IDLE" /\ print_thread' = print_thread]_vars
    /\ [](\A w \in Workers :
            workers[w].pc \in {"countdown", "snap", "capture", "stitch"}
              => /\ workers[w].photo_paths = SelectSeq(workers[w].shots, IsShot)
                 /\ Len(workers[w].shots) = workers[w].i)
    /\ [][\A w \in Workers :
            /\ Enters(w, "stitch")
                 => Len(workers'[w].shots) = num_photos /\ StripOf(workers'[w].shots) # None
            /\ workers[w].kind = "strip" /\ Enters(w, "print")
                 => /\ workers[w].pc = "stitch"
                    /\ last_result'.photo_url = StripOf(workers[w].shots)
            /\ workers[w].kind = "strip" /\ Becomes(w, "nocapture")
                 => /\ Len(workers'[w].shots) = num_photos
                    /\ StripOf(workers'[w].shots) = None
                    /\ workers[w].pc = "capture"]_vars

\* C19 witness: in a kiosk strip session the second shot failed, and the strip
\* of the first and the third shot is being printed.
C19_Witness ==
    /\ state = "PRINTING"
    /\ is_strip
    /\ khist.shots = <<1, None, 3>>
    /\ strip_paths = <<1, 3>>
    /\ print_thread.path = 1013


\* The photo directory and the map after a handler that runs with no other
\* beside it: toggle_like flips the flag of the filename (an entry without one
\* counts as not liked), delete_photo removes the file and its entry, or
\* answers 404 and changes nothing when there is no such file.
HandlerAlone(req, st) ==
    IF req.kind = "like"
    THEN [st EXCEPT !.map[req.filename] = IF @ = "liked" THEN "unliked" ELSE "liked"]
    ELSE IF req.filename \in st.photos
         THEN [map |-> [st.map EXCEPT ![req.filename] = "absent"],
               photos |-> st.photos \ {req.filename}]
         ELSE st

RECURSIVE SerialRun(_, _, _)
\* The handlers of log, run one after the other in the order given.
SerialRun(log, order, st) ==
    IF order = <<>> THEN st
    ELSE SerialRun(log, Tail(order), HandlerAlone(log[Head(order)], st))

Orders(n) == {p \in [1..n -> 1..n] : \A i, j \in 1..n : p[i] = p[j] => i = j}

\* C21 (as claimed): metadata mutations serialize.  Once the handlers that
\* were dispatched have all ended, photo_metadata is what running them one at a
\* time in some order gives: in particular two toggles of one filename leave
\* its flag as it was.
C21_Serializable ==
    InFlight = {} =>
        \E order \in Orders(Len(mhist.log)) :
            SerialRun(mhist.log, order, mhist.start).map = photo_metadata

\* C22 (as claimed): metadata persistence.  Whenever no handler is in flight
\* and no write has failed, the metadata file holds the text of photo_metadata
\* (or there is no file yet and the map is empty), and load_metadata on it
\* gives exactly photo_metadata.
C22_Persisted ==
    (InFlight = {} /\ ~mhist.write_failed) =>
        /\ load_metadata(metadata_file) = photo_metadata
        /\ metadata_file.kind = "data" => metadata_file = JsonOf(photo_metadata)

\* The request of the step is one the gate is there for: a path under /api/
\* that is not on the allow-list, a method other than OPTIONS, and a session
\* that is not authenticated when the request is made.
UnauthenticatedApiRequest ==
    LET r == last_request' IN
    /\ r # last_request
    /\ Len(r.path) >= 2 /\ Head(r.path) = "api"
    /\ r.path \notin {<<"api", "auth", "login">>, <<"api", "auth", "status">>}
    /\ r.method # "OPTIONS"
    /\ ~api_authenticated[r.client]

\* C23: authentication gate.  A request to an /api/ path outside the allow-list,
\* not OPTIONS, from a session that is not authenticated is answered 401 by the
\* before_request hook and no view runs: no capture workflow is admitted,
\* photo_in_progress and last_result keep their values, the metadata, the
\* photos and the metadata file are untouched and no thread is started.
C23_AuthGate ==
    [][UnauthenticatedApiRequest =>
          /\ last_request'.gate = "401"
          /\ last_request'.view = "none"
          /\ UNCHANGED <<server_vars, photo_metadata, photos, thermals, metadata_file,
                         handlers, api_authenticated>>]_vars

\* One phone has logged in and started a capture; the other, not logged in,
\* has just been refused a photo strip.
C23_Witness ==
    /\ last_request.gate = "401"
    /\ last_request.method = "POST"
    /\ last_request.path = <<"api", "strip">>
    /\ ~api_authenticated[last_request.client]
    /\ \E c \in Clients : api_authenticated[c]
    /\ Alive # {}

\* C24: frame buffer discipline.  get_latest_frame returns None exactly when
\* the loop has stored no frame since start, and otherwise a copy of the frame
\* the loop stored last (a read has succeeded once the loop has stored its
\* frame); a failed read leaves the slot as it was; the loop
\* leaves only on the stop signal, never on a failed read; the writer's store
\* is never held up by a reader, and what a reader does with its frame never
\* shows in the slot.
C24_FrameBuffer ==
    /\ [][reader' # reader /\ reader'.n # reader.n =>
             /\ reader'.got.frame = fhist.written
             /\ (reader'.got.frame = None) <=> (fhist.written = None)
             /\ ~reader'.got.alias]_vars
    /\ [][acq_pc = "read" /\ acq_pc' = "sleep" => frame_slot' = frame_slot]_vars
    /\ [][acq_pc' = "exited" /\ acq_pc # "exited" => acq_pc = "while" /\ ~cam_running]_vars
    /\ [](acq_pc = "publish" => ENABLED acq_publish)
    /\ [](frame_slot = fhist.written /\ ~slot_marked)

\* After a frame was stored and a later read failed, a reader is handed the
\* stored frame, and the loop is back at its test.
C24_Witness ==
    /\ fhist.failed
    /\ fhist.written # None
    /\ reader.got.frame = fhist.written
    /\ acq_pc = "while"

\* C25 (as claimed): strip geometry.  For N >= 1 images create_photo_strip
\* saves an image 576 pixels wide and N x 576 + (N - 1) x spacing pixels high;
\* for an empty list it returns None and saves nothing.
C25_StripGeometry ==
    cs_result.called =>
        LET N == Len(cs_images) IN
        IF N >= 1
        THEN /\ cs_result.saved
             /\ cs_result.width = 576
             /\ cs_result.height = N * 576 + (N - 1) * cs_spacing
        ELSE ~cs_result.saved

\* The states a strip session enters up to its review, in order: three times
\* COUNTDOWN, FLASH, CAPTURE, with STRIP_GAP after the first and the second.
StripShape ==
    <<"COUNTDOWN", "FLASH", "CAPTURE", "STRIP_GAP",
      "COUNTDOWN", "FLASH", "CAPTURE", "STRIP_GAP",
      "COUNTDOWN", "FLASH", "CAPTURE", "REVIEW">>

\* How many of the states entered are CAPTURE.
Attempts(trace) == Cardinality({i \in 1..Len(trace) : trace[i] = "CAPTURE"})

\* The session in progress (or just over) was started by a "strip" action.
InStripSession == khist.kind = "strip" /\ khist.trace # <<>>

\* C26: a session started by a "strip" action enters COUNTDOWN, FLASH, CAPTURE
\* three times, with STRIP_GAP after the first and second CAPTURE and REVIEW
\* after the third, and then PRINTING and IDLE or IDLE; every COUNTDOWN and
\* FLASH lasts its full duration; the shot index is the number of capture
\* attempts so far, one more at every attempt whether it gave a path or not;
\* REVIEW is entered with the three attempts made and the strip of the shots
\* that succeeded as the output.
C26_StripSessionShape ==
    /\ [](InStripSession
           => /\ \/ IsPrefix(khist.trace, StripShape \o <<"PRINTING", "IDLE">>)
                 \/ IsPrefix(khist.trace, StripShape \o <<"IDLE">>)
              /\ Attempts(khist.trace) = Len(khist.shots)
              /\ strip_photo_index = Attempts(khist.trace)
              /\ state = khist.trace[Len(khist.trace)]
              /\ state = "REVIEW"
                    => /\ Len(khist.shots) = STRIP_NUM_PHOTOS
                       /\ current_print_path = StripOf(khist.shots))
    /\ [][khist.kind = "strip" /\ state' # state
            => /\ state = "COUNTDOWN" => khist.dwell >= COUNTDOWN_SECONDS
               /\ state = "FLASH" => khist.dwell >= FLASH_DURATION
               /\ state = "FLASH"
                    => /\ Len(khist'.shots) = Len(khist.shots) + 1
                       /\ strip_photo_index' = strip_photo_index + 1]_vars

\* C26 witness: a strip session is in REVIEW after three attempts of which the
\* second gave no path.
C26_Witness ==
    /\ InStripSession
    /\ state = "REVIEW"
    /\ khist.trace = StripShape
    /\ Len(khist.shots) = STRIP_NUM_PHOTOS
    /\ khist.shots[2] = None
    /\ khist.shots[1] # None
    /\ strip_photo_index = STRIP_NUM_PHOTOS

\* The changes of state of the kiosk's transition table.
KioskTransitions ==
    { <<"IDLE", "COUNTDOWN">>, <<"COUNTDOWN", "FLASH">>, <<"FLASH", "CAPTURE">>,
      <<"CAPTURE", "STRIP_GAP">>, <<"CAPTURE", "REVIEW">>, <<"STRIP_GAP", "COUNTDOWN">>,
      <<"REVIEW", "PRINTING">>, <<"REVIEW", "IDLE">>, <<"PRINTING", "IDLE">> }

\* The states entered by the step from (st, hist) to hist2, in order: what a
\* _tick adds to the record (a _tick in IDLE starts the record afresh).
EnteredBy(st, hist, hist2) ==
    IF hist2.ticks = hist.ticks THEN <<>>
    ELSE IF st = "IDLE" THEN hist2.trace
    ELSE SubSeq(hist2.trace, Len(hist.trace) + 1, Len(hist2.trace))

\* Every state of path but the last is followed by one the table allows.
Chained(path) ==
    \A i \in 1..(Len(path) - 1) : <<path[i], path[i + 1]>> \in KioskTransitions

\* C27: every change of the kiosk's state, the CAPTURE entered and left inside
\* the FLASH tick included, is a transition of the table; the state changes
\* only by the states entered; IDLE is left only by a _tick that takes a
\* trigger out of the mailbox; a session started by "single" never enters
\* STRIP_GAP, and STRIP_GAP follows CAPTURE only in a strip session with shots
\* remaining.
C27_TransitionRelation ==
    /\ [][LET entered == EnteredBy(state, khist, khist')
              path    == <<state>> \o entered
          IN  /\ Chained(path)
              /\ state' = path[Len(path)]
              /\ state' = state => entered = <<>>
              /\ state = "IDLE" /\ state' # "IDLE"
                    => /\ pending_action # NoAction
                       /\ pending_action' = NoAction
                       /\ khist'.consumed = Append(khist.consumed, pending_action.id)
                       /\ khist'.kind = pending_action.action
              /\ state' = "STRIP_GAP"
                    => /\ khist.kind = "strip"
                       /\ Len(khist'.shots) < STRIP_NUM_PHOTOS]_vars
    /\ [](khist.kind = "single"
            => \A i \in 1..Len(khist.trace) : khist.trace[i] # "STRIP_GAP")

\* C27 witness: a single-photo session went through all its transitions and is
\* back in IDLE after printing.
C27_Witness ==
    /\ khist.kind = "single"
    /\ state = "IDLE"
    /\ khist.trace = <<"COUNTDOWN", "FLASH", "CAPTURE", "REVIEW", "PRINTING", "IDLE">>

TimedStates == {"COUNTDOWN", "FLASH", "STRIP_GAP", "REVIEW"}

\* The duration of a timed state   (kiosk.py:32-35)
DurationOf(st) ==
    CASE st = "COUNTDOWN" -> COUNTDOWN_SECONDS
      [] st = "FLASH"     -> FLASH_DURATION
      [] st = "STRIP_GAP" -> STRIP_GAP_DURATION
      [] st = "REVIEW"    -> REVIEW_DURATION

\* C28: COUNTDOWN, FLASH, STRIP_GAP and REVIEW are left only by a _tick at
\* which the time since the state was entered is at least the state's duration
\* (3 s, 0.2 s, 2 s, 4 s); what _elapsed() returns is at all times the time
\* since the last entry of a state, so it is zero right after every entry and
\* nothing of the time spent in an earlier state or before an earlier tick is
\* counted; this holds whatever the spacing of the ticks.
C28_TimedTransitions ==
    /\ [](elapsed_clock = khist.dwell)
    /\ [][/\ (state \in TimedStates /\ state' # state)
               => (khist.dwell >= DurationOf(state) /\ khist'.ticks # khist.ticks)
          /\ (EnteredBy(state, khist, khist') # <<>>)
               => (elapsed_clock' = 0 /\ khist'.dwell = 0)]_vars

\* C28 witness: a session reached REVIEW and has stayed there longer than
\* REVIEW_DURATION with no tick yet to end it.
C28_Witness ==
    /\ state = "REVIEW"
    /\ elapsed_clock > REVIEW_DURATION
    /\ khist.dwell > REVIEW_DURATION
    /\ Attempts(khist.trace) >= 1

\* C29: is_strip changes only in the step from IDLE to COUNTDOWN; that step
\* leaves the list of captured paths empty and is_strip as the trigger taken
\* says, and for a strip the shot index 0; while the state is not IDLE a
\* _queue_action call changes only the mailbox, and no step takes a trigger out
\* of the mailbox or changes is_strip.
C29_SessionFrozen ==
    [][/\ (is_strip' # is_strip) => (state = "IDLE" /\ state' = "COUNTDOWN")
       /\ (state = "IDLE" /\ state' = "COUNTDOWN")
            => /\ strip_paths' = <<>>
               /\ is_strip' = (pending_action.action = "strip")
               /\ is_strip' => strip_photo_index' = 0
       /\ (state # "IDLE" /\ khist'.posted # khist.posted)
            => /\ UNCHANGED <<state, is_strip, strip_photo_index, strip_paths>>
               /\ pending_action'.id = khist'.posted
       /\ (state # "IDLE" /\ khist'.posted = khist.posted)
            => UNCHANGED pending_action]_vars

\* C29 witness: the second session, a strip with a shot taken, has a "single"
\* trigger waiting in the mailbox that was posted after the session began.
C29_Witness ==
    /\ state = "STRIP_GAP"
    /\ is_strip
    /\ strip_paths # <<>>
    /\ Len(khist.consumed) = 2
    /\ pending_action.action = "single"
    /\ pending_action.id > khist.consumed[2]

\* The step of run() that builds and shows the frame, and the one that ticks.
BuildStep == loop_pc = "build" /\ loop_pc' = "tick"

TickStep == loop_pc = "tick" /\ loop_pc' = "build"

\* C30: the step that builds the frame, in whatever state and with or without
\* a camera frame, leaves state, the time since the state was entered,
\* is_strip, the shot index, the captured paths, the review image, the pending
\* output path and the mailbox as they were, and shows what _build_frame
\* returns for them; the window changes in no other step; and state, is_strip,
\* the shot index, the captured paths, the review image and the pending output
\* path change only in the step that runs _tick.
C30_DisplayReadOnly ==
    [][/\ BuildStep
            => /\ UNCHANGED <<state, elapsed_clock, is_strip, strip_photo_index, strip_paths,
                              review_image, current_print_path, current_is_strip,
                              pending_action, khist>>
               /\ \E frame \in {None, PreviewFrame} :
                     display' = BuildFrame(state, frame, review_image, elapsed_clock,
                                           is_strip, strip_photo_index)
       /\ (display' # display) => BuildStep
       /\ (<<state, is_strip, strip_photo_index, strip_paths, review_image,
              current_print_path, current_is_strip>>'
             # <<state, is_strip, strip_photo_index, strip_paths, review_image,
                 current_print_path, current_is_strip>>)
            => TickStep]_vars

\* C30 witness: in a strip session with a shot taken and a trigger waiting,
\* the frame has just been built in STRIP_GAP with no camera frame available.
C30_Witness ==
    /\ loop_pc = "tick"
    /\ state = "STRIP_GAP"
    /\ display.text = "Waiting for camera..."
    /\ strip_paths # <<>>
    /\ pending_action # NoAction

\* The request was a toggle_like of f.
IsLike(req, f) == req.kind = "like" /\ req.filename = f

\* C31 (as claimed): like-toggle semantics.  A toggle_like of a filename that
\* has no entry and has not been toggled before leaves an entry that is liked;
\* every toggle stores the opposite of the flag that is there when it stores,
\* and its response carries the value it stored, which is the flag's value
\* then; after two toggles of one filename, the second dispatched when the
\* first had ended, the flag is what it was at the start; an entry comes into
\* being only by a toggle_like, and no step of a capture workflow changes the
\* map or the metadata file.
C31_ToggleSemantics ==
    /\ [][\A h \in Handlers :
            LET f == handlers[h].filename IN
            /\ (At(h, "like", "set") /\ handlers'[h].pc = "save_open")
                 => /\ (photo_metadata'[f] = "liked") # (photo_metadata[f] = "liked")
                    /\ (mhist.start.map[f] = "absent"
                        /\ Cardinality({i \in 1..Len(mhist.log) : IsLike(mhist.log[i], f)}) = 1)
                         => photo_metadata'[f] = "liked"
            /\ (handlers[h].kind = "like" /\ handlers[h].pc = "saved"
                /\ handlers'[h] = NoHandler)
                 => /\ mhist'.liked = Toggled(handlers[h].current_status)
                    /\ mhist'.liked = photo_metadata[f]]_vars
    /\ [](\A f \in Filenames :
            (InFlight = {} /\ ~mhist.overlap /\ Len(mhist.log) = 2
             /\ IsLike(mhist.log[1], f) /\ IsLike(mhist.log[2], f))
              => (photo_metadata[f] = "liked") = (mhist.start.map[f] = "liked"))
    /\ [][\A f \in Filenames :
            (photo_metadata[f] = "absent" /\ photo_metadata'[f] # "absent")
              => \E h \in Handlers : At(h, "like", "insert") /\ handlers[h].filename = f]_vars
    /\ [][workers' # workers => UNCHANGED <<photo_metadata, metadata_file>>]_vars

TerminalStatuses == {"ready", "success", "error"}

\* C32 (as claimed): status consistency of the server.  Whenever
\* photo_in_progress is false, last_result holds ready, success or error and
\* not the status of a phase in flight; and last_result is written only while
\* photo_in_progress is true.
C32_StatusConsistency ==
    /\ [](~photo_in_progress => last_result.status \in TerminalStatuses)
    /\ [][last_result' # last_result => photo_in_progress]_vars

C34_StripCounters ==
    (khist.kind = "strip" /\ state # "IDLE")
      => /\ Len(strip_paths) <= strip_photo_index
         /\ strip_photo_index <= STRIP_NUM_PHOTOS
         /\ state \in {"COUNTDOWN", "FLASH", "STRIP_GAP"}
              => strip_photo_index < STRIP_NUM_PHOTOS
         /\ state \in {"REVIEW", "PRINTING"}
              => strip_photo_index = STRIP_NUM_PHOTOS

\* C34 witness: the second strip session of the run is in the FLASH of its
\* third shot with one of the two earlier shots failed.
C34_Witness ==
    /\ khist.kind = "strip"
    /\ Len(khist.consumed) = 2
    /\ state = "FLASH"
    /\ strip_photo_index = STRIP_NUM_PHOTOS - 1
    /\ Len(strip_paths) = 1

\* C35 (as claimed): a debounced press is lost, not deferred.  A button whose
\* press was ignored because it came inside the debounce window invokes no
\* callback as long as every report since shows it set, however long after
\* the window; its callback needs a report with the bit clear and then a new
\* press.
C35_DebouncedPressLost ==
    /\ jfired = "single" => BitAnd(jtruth.lost, 16) = 0
    /\ jfired = "strip"  => BitAnd(jtruth.lost, 32) = 0

\* C36 (as claimed): no callback after stop.  Once stop() has returned no step
\* of the polling loop invokes on_single_photo or on_photo_strip, wherever the
\* loop was when stop() was called.
C36_NoCallbackAfterStop ==
    [][stop_pc = "returned" => (jfired' = "none" /\ jtruth'.fires = jtruth.fires)]_vars

\* C37 (as claimed): the device is given up only by a read failure or by
\* stop().  A step in which a callback is invoked, whether the callback returns
\* or raises, leaves the device open and the controller connected and stores
\* the reported buttons as the previous bits; the device goes from open to
\* closed only in a step of stop() or in a step that invoked no callback.
C37_CallbackErrorKeepsDevice ==
    [][/\ (jpc = "read" /\ jfired' # "none")
            => /\ jdevice' = jdevice
               /\ jconnected' = jconnected
               /\ BitAnd(prev_buttons', 48) # 0
       /\ (jdevice /\ ~jdevice')
            => (stop_pc' # stop_pc \/ jfired' = "none")]_vars

\* C38: the kiosk prints one job at a time.  A print thread exists only in
\* PRINTING and before its completion signal; a thread is started only from
\* REVIEW when no thread exists; the completion signal is raised only by the
\* thread of the current PRINTING state, as its last step; PRINTING is left
\* only for IDLE, only after that signal, with no thread remaining.
C38_OnePrintAtATime ==
    /\ [](print_thread # NoThread => (state = "PRINTING" /\ ~print_done))
    /\ [][/\ (print_thread'.pc = "thermal" /\ print_thread.pc # "thermal")
               => /\ print_thread = NoThread
                  /\ state = "REVIEW"
                  /\ state' = "PRINTING"
                  /\ ~print_done'
          /\ (print_done' /\ ~print_done)
               => /\ state = "PRINTING"
                  /\ print_thread.pc = "finally"
                  /\ print_thread' = NoThread
          /\ (state = "PRINTING" /\ state' # "PRINTING")
               => /\ state' = "IDLE"
                  /\ print_done
                  /\ print_thread = NoThread]_vars

\* C38 witness: a second print thread is running in PRINTING after an earlier
\* one has finished and the kiosk has been back in IDLE.
C38_Witness ==
    /\ state = "PRINTING"
    /\ print_thread.pc = "print"
    /\ ~print_done
    /\ khist.finished
    /\ khist.returned

\* The print jobs in progress in the server process: the do_print threads of
\* POST /api/reprint whose process_for_thermal has returned and whose
\* print_photo has not, and the capture workflows at their print step.
PrintJobs ==
    Cardinality({h \in Handlers : At(h, "reprint", "print")})
      + Cardinality({w \in Workers : workers[w].pc = "print"})

\* C39: printer exclusivity in the server.  At most one print job, the print
\* step of a capture workflow or a background job of POST /api/reprint, is in
\* progress at any time.
C39_PrinterExclusive == PrintJobs <= 1

====
